---- MODULE Spec2Model ----
(***************************************************************************)
(* CopilotX: a model of the credential manager (auth/token.py,             *)
(* auth/storage.py), the Responses stream rewriter                         *)
(* (proxy/responses_stream.py), the protocol translator                    *)
(* (proxy/translator.py), the route handlers (server/), the model list     *)
(* cache (proxy/client.py) and the device-flow poll loop (auth/oauth.py).  *)
(*                                                                         *)
(* Each component has its own specification over the shared variable list: *)
(*   SpecToken      TokenManager under concurrent request handlers         *)
(*   SpecResponses  fix_responses_stream, one input line per step          *)
(*   SpecStream     openai_stream_to_anthropic_stream, one line per step   *)
(*   SpecRequest    anthropic_to_openai_request, one input turn per step   *)
(*   SpecResponse   openai_to_anthropic_response on a drawn upstream body  *)
(*   SpecEdge       one request through a route handler                     *)
(*   SpecModels     CopilotClient.list_models over successive calls         *)
(*   SpecGate       ApiKeyMiddleware.dispatch, one request per step         *)
(*   SpecParams     model, tools and tool_choice of the request translator *)
(*   SpecStorage    AuthStorage.save step by step, beside a reader          *)
(*   SpecDevice     poll_for_access_token, one poll or reply per step       *)
(*   SpecInitiator  the X-Initiator header of a /v1/responses request       *)
(* Strings that the code concatenates are sequences of characters here.    *)
(***************************************************************************)
EXTENDS Integers, Sequences, FiniteSets, TLC

VARIABLES
    \* ---- TokenManager / AuthStorage ----
    now,          \* time.time()
    creds,        \* TokenManager._creds (None or a Credentials record)
    disk,         \* contents of auth.json (None when the file does not exist)
    pc,           \* per request handler: position in ensure_copilot_token
    req,          \* per handler: the bearer the pending mint request will yield
    ret,          \* per handler: what ensure_copilot_token returned, and when
    mints,        \* number of GETs sent to GITHUB_COPILOT_TOKEN_URL
    \* ---- fix_responses_stream ----
    rsPc,         \* "reading" while raw_lines is consumed, then "done"
    rsItems,      \* ResponsesStreamIdTracker._output_items
    rsCounter,    \* ResponsesStreamIdTracker._id_counter
    rsIn,         \* the upstream lines read so far
    rsOut,        \* the lines yielded so far
    \* ---- openai_stream_to_anthropic_stream ----
    stPc,         \* "loop" while openai_lines is consumed, "done", "raised"
    sent_start,
    sent_text_block_start,
    tool_call_trackers,   \* tc_index -> {id, name, block_index, ...}
    next_block_index,
    text_block_index,
    finish_reason,
    output_tokens,
    stIn,         \* the upstream lines read so far
    stOut,        \* the Anthropic events yielded so far
    \* ---- anthropic_to_openai_request ----
    rqIn,         \* body["messages"] converted so far
    rqOut,        \* per input message, the OpenAI messages appended for it
    \* ---- openai_to_anthropic_response ----
    rpPc,         \* "call" before the call, then "returned" or "raised"
    rpIn,         \* openai_resp
    rpOut,        \* the Anthropic message returned
    \* ---- a route handler of the server ----
    edPc,         \* position of the handler
    edRoute,      \* the path requested
    edStream,     \* body.get("stream", False)
    edCred,       \* how ensure_copilot_token ended for this request
    edUp,         \* the upstream's answer to the proxied request
    edStatus,     \* status code of the response sent to the caller; 0: none yet
    edContent,    \* what the body of that response carries
    \* ---- CopilotClient.list_models ----
    mdPc,         \* position of the list_models call
    mdNow,        \* time.time()
    mdCallNow,    \* the local "now" of the call in progress
    mdCache,      \* CopilotClient._models_cache
    mdCacheTime,  \* CopilotClient._models_cache_time
    mdRet,        \* what the last call returned
    mdFetches,    \* number of GETs sent to the models endpoint
    mdLastFetch,  \* how the latest of them ended: "none", "ok", "failed"
    \* ---- ApiKeyMiddleware ----
    gtPc,         \* "idle", "handler" (call_next was called) or "refused"
    gtKey,        \* COPILOTX_API_KEY; "" when the variable is not set
    gtReq,        \* the request dispatched
    gtStatus,     \* status code the middleware itself answered with; 0: none
    \* ---- anthropic_to_openai_request, after the loop over the messages ----
    pmPc,         \* "model", "tools", "tool_choice", then "returned" or "raised"
    pmBody,       \* body: its "model", "tools" and "tool_choice" entries
    pmOut,        \* openai_req: its "model", "tools" and "tool_choice" entries
    \* ---- AuthStorage.save step by step, and who calls it ----
    fsPc,         \* position of the TokenManager inside save
    fsOp,         \* the operation that called save
    fsCreds,      \* TokenManager._creds
    fsFile,       \* auth.json: None, or its content and permission bits
    fsUmask,      \* the umask of the process
    fsRead,       \* what the latest load of another process returned
    fsRet,        \* how the operation ended
    fsSaves,      \* number of saves started
    \* ---- poll_for_access_token ----
    dfPc,         \* "loop", "posted" (awaiting the reply), "returned", "raised"
    elapsed,
    poll_interval,
    dfPolls,      \* number of POSTs sent to the access-token URL
    dfResult,     \* "access_token", or the exception raised; "" before
    \* ---- POST /v1/responses: the X-Initiator header ----
    inPc,         \* "call" before the handler runs, then "sent"
    inBody,       \* the request body: its "input"
    inVision,     \* has_vision_input(body)
    inHeaders     \* the extra headers of the upstream request

tokenVars == <<now, creds, disk, pc, req, ret, mints>>
rsVars == <<rsPc, rsItems, rsCounter, rsIn, rsOut>>

stVars == <<stPc, sent_start, sent_text_block_start, tool_call_trackers,
            next_block_index, text_block_index, finish_reason, output_tokens,
            stIn, stOut>>

rqVars == <<rqIn, rqOut>>
rpVars == <<rpPc, rpIn, rpOut>>
edVars == <<edPc, edRoute, edStream, edCred, edUp, edStatus, edContent>>
mdVars == <<mdPc, mdNow, mdCallNow, mdCache, mdCacheTime, mdRet, mdFetches, mdLastFetch>>

gtVars == <<gtPc, gtKey, gtReq, gtStatus>>
pmVars == <<pmPc, pmBody, pmOut>>
fsVars == <<fsPc, fsOp, fsCreds, fsFile, fsUmask, fsRead, fsRet, fsSaves>>
dfVars == <<dfPc, elapsed, poll_interval, dfPolls, dfResult>>
inVars == <<inPc, inBody, inVision, inHeaders>>

vars == <<tokenVars, rsVars, stVars, rqVars, rpVars, edVars, mdVars, gtVars,
          pmVars, fsVars, dfVars, inVars>>

\* what the actions of one part leave alone
notTokenVars == <<rsVars, stVars, rqVars, rpVars, edVars, mdVars,
                  gtVars, pmVars, fsVars,
                  dfVars, inVars>>
notRsVars == <<tokenVars, stVars, rqVars, rpVars, edVars, mdVars,
               gtVars, pmVars, fsVars,
               dfVars, inVars>>
notStVars == <<tokenVars, rsVars, rqVars, rpVars, edVars, mdVars,
               gtVars, pmVars, fsVars,
               dfVars, inVars>>
notRqVars == <<tokenVars, rsVars, stVars, rpVars, edVars, mdVars,
               gtVars, pmVars, fsVars,
               dfVars, inVars>>
notRpVars == <<tokenVars, rsVars, stVars, rqVars, edVars, mdVars,
               gtVars, pmVars, fsVars,
               dfVars, inVars>>
notEdVars == <<tokenVars, rsVars, stVars, rqVars, rpVars, mdVars,
               gtVars, pmVars, fsVars,
               dfVars, inVars>>
notMdVars == <<tokenVars, rsVars, stVars, rqVars, rpVars, edVars,
               gtVars, pmVars, fsVars,
               dfVars, inVars>>
notGtVars == <<tokenVars, rsVars, stVars, rqVars, rpVars, edVars, mdVars,
               pmVars, fsVars,
               dfVars, inVars>>
notPmVars == <<tokenVars, rsVars, stVars, rqVars, rpVars, edVars, mdVars,
               gtVars, fsVars,
               dfVars, inVars>>
notFsVars == <<tokenVars, rsVars, stVars, rqVars, rpVars, edVars, mdVars,
               gtVars, pmVars,
               dfVars, inVars>>
notDfVars == <<tokenVars, rsVars, stVars, rqVars, rpVars, edVars, mdVars,
               gtVars, pmVars, fsVars, inVars>>
notInVars == <<tokenVars, rsVars, stVars, rqVars, rpVars, edVars, mdVars,
               gtVars, pmVars, fsVars, dfVars>>

\* Python's None, where the code holds an optional record
None == [none |-> TRUE]

\* the empty string, where the code holds an empty token
Empty == ""

(***************************************************************************)
(* Credential manager                                                      *)
(***************************************************************************)

TOKEN_REFRESH_BUFFER == 60

NCallers == 2
MaxNow == 61
MaxMints == 2

Callers == 1 .. NCallers
GrantTokens == {"gh1", "gh2"}

\* The clock advances between the steps of the handlers.
TickStep == TOKEN_REFRESH_BUFFER + 1

\* expires_at values the mint endpoint answers with, relative to the local
\* clock at the moment the response is read.
ExpiryOffsets ==
    {TOKEN_REFRESH_BUFFER, TOKEN_REFRESH_BUFFER + 1}

\* endpoints.api of a mint response; Empty when the response carries none
EndpointsApi == {Empty, "https://api.business.githubcopilot.com"}

\* A bearer is identified by the grant it was minted from and the mint's number.
Bearer(g, n) == [grant |-> g, serial |-> n]

\* copilot_token = ""
EmptyBearer == Bearer(Empty, 0)

\* Credentials(github_token, copilot_token="", expires_at=0.0, api_base_url="")
Credentials(github_token) ==
    [github_token |-> github_token, copilot_token |-> EmptyBearer, expires_at |-> 0,
     api_base_url |-> Empty]

\* the validity test without the refresh buffer
copilot_token_valid_unbuffered(c, t) ==
    /\ c # None
    /\ c.copilot_token # EmptyBearer
    /\ c.expires_at > t

\* TokenManager.copilot_token_valid
copilot_token_valid(c, t) ==
    /\ c # None
    /\ c.copilot_token # EmptyBearer
    /\ c.expires_at > t + TOKEN_REFRESH_BUFFER

\* AuthStorage.load: the record of auth.json, None when there is no file.
StorageLoad == disk

InitToken ==
    /\ now = 0
    /\ creds = None
    /\ disk \in {None, Credentials("gh1")}
             \cup {[Credentials("gh1") EXCEPT !.copilot_token = Bearer("gh1", 0),
                                              !.expires_at = e] :
                     e \in {TOKEN_REFRESH_BUFFER, 2 * TOKEN_REFRESH_BUFFER + 2}}
    /\ pc = [c \in Callers |-> "idle"]
    /\ req = [c \in Callers |-> EmptyBearer]
    /\ ret = [c \in Callers |-> None]
    /\ mints = 0

\* the credential manager at rest, for the specifications of the other parts
IdleToken ==
    /\ now = 0
    /\ creds = None
    /\ disk = None
    /\ pc = [c \in Callers |-> "idle"]
    /\ req = [c \in Callers |-> EmptyBearer]
    /\ ret = [c \in Callers |-> None]
    /\ mints = 0

\* time passes
Tick ==
    /\ now + TickStep <= MaxNow
    /\ now' = now + TickStep
    /\ UNCHANGED <<creds, disk, pc, req, ret, mints>>
    /\ UNCHANGED notTokenVars

\* TokenManager.save_github_token
SaveGithubToken(g) ==
    /\ creds' = Credentials(g)
    /\ disk' = Credentials(g)
    /\ UNCHANGED <<now, pc, req, ret, mints>>
    /\ UNCHANGED notTokenVars

\* a logout that forgets the record in memory and leaves auth.json
LogoutKeepingFile ==
    /\ creds' = None
    /\ UNCHANGED <<now, disk, pc, req, ret, mints>>
    /\ UNCHANGED notTokenVars

\* TokenManager.logout
Logout ==
    /\ creds' = None
    /\ disk' = None
    /\ UNCHANGED <<now, pc, req, ret, mints>>
    /\ UNCHANGED notTokenVars

\* ensure_copilot_token from its entry to its first suspension or its return:
\* load if needed, fail when there are no credentials, return the stored
\* bearer when it is valid, otherwise send the mint request and await.
EnsureEnter(c) ==
    /\ pc[c] = "idle"
    /\ LET loaded == IF creds = None THEN StorageLoad ELSE creds
       IN /\ creds' = loaded
          /\ IF loaded = None
             THEN /\ pc' = [pc EXCEPT ![c] = "not_authenticated"]
                  /\ UNCHANGED <<req, ret, mints>>
             ELSE IF copilot_token_valid(loaded, now)
             THEN /\ pc' = [pc EXCEPT ![c] = "returned"]
                  /\ ret' = [ret EXCEPT ![c] =
                               [bearer |-> loaded.copilot_token,
                                expires_at |-> loaded.expires_at,
                                at |-> now, minted |-> FALSE,
                                endpoints_api |-> Empty]]
                  /\ UNCHANGED <<req, mints>>
             ELSE /\ mints < MaxMints
                  /\ pc' = [pc EXCEPT ![c] = "fetching"]
                  /\ req' = [req EXCEPT ![c] = Bearer(loaded.github_token, mints + 1)]
                  /\ mints' = mints + 1
                  /\ UNCHANGED ret
    /\ UNCHANGED <<now, disk>>
    /\ UNCHANGED notTokenVars

\* _fetch_copilot_token answered 2xx; it reads "token" and "expires_at" of
\* the body (api is the body's endpoints.api, which it does not read) and the
\* tail of ensure_copilot_token stores both in self._creds, saves and
\* returns.  With self._creds reset to None meanwhile the attribute store
\* raises.
FetchOk(c, off, api) ==
    /\ pc[c] = "fetching"
    /\ LET new_token == req[c]
           expires_at == now + off
       IN IF creds = None
          THEN /\ pc' = [pc EXCEPT ![c] = "error"]
               /\ UNCHANGED <<creds, disk, ret>>
          ELSE /\ creds' = [creds EXCEPT !.copilot_token = new_token,
                                         !.expires_at = expires_at]
               /\ disk' = creds'
               /\ pc' = [pc EXCEPT ![c] = "returned"]
               /\ ret' = [ret EXCEPT ![c] =
                            [bearer |-> new_token, expires_at |-> expires_at,
                             at |-> now, minted |-> TRUE,
                             endpoints_api |-> api]]
    /\ req' = [req EXCEPT ![c] = EmptyBearer]
    /\ UNCHANGED <<now, mints>>
    /\ UNCHANGED notTokenVars

\* a failed mint that also drops the stored bearer
FetchFailClearing(c) ==
    /\ pc[c] = "fetching"
    /\ pc' = [pc EXCEPT ![c] = "error"]
    /\ req' = [req EXCEPT ![c] = EmptyBearer]
    /\ creds' = IF creds = None THEN None
                ELSE [creds EXCEPT !.copilot_token = EmptyBearer, !.expires_at = 0]
    /\ disk' = creds'
    /\ UNCHANGED <<now, ret, mints>>
    /\ UNCHANGED notTokenVars

\* _fetch_copilot_token raised: 401, 403 (TokenError) or raise_for_status.
FetchFail(c) ==
    /\ pc[c] = "fetching"
    /\ pc' = [pc EXCEPT ![c] = "error"]
    /\ req' = [req EXCEPT ![c] = EmptyBearer]
    /\ UNCHANGED <<now, creds, disk, ret, mints>>
    /\ UNCHANGED notTokenVars

\* the handler is done with the outcome; the next request may arrive
HandlerDone(c) ==
    /\ pc[c] \in {"returned", "error", "not_authenticated"}
    /\ pc' = [pc EXCEPT ![c] = "idle"]
    /\ ret' = [ret EXCEPT ![c] = None]
    /\ UNCHANGED <<now, creds, disk, req, mints>>
    /\ UNCHANGED notTokenVars

NextToken ==
    \/ Tick
    \/ \E g \in GrantTokens : SaveGithubToken(g)
    \/ Logout
    \/ \E c \in Callers : EnsureEnter(c)
    \/ \E c \in Callers, off \in ExpiryOffsets, api \in EndpointsApi :
          FetchOk(c, off, api)
    \/ \E c \in Callers : FetchFail(c)
    \/ \E c \in Callers : HandlerDone(c)


(***************************************************************************)
(* Responses stream rewriter                                               *)
(***************************************************************************)

MaxLines == 3

OutputIndexes == {0, 1}
\* payload.get("output_index") is None
NoIndex == -1

\* An item id: one the upstream sent (gen = FALSE, n = its number), or one
\* minted by _generate_id, "oi_<output_index>_<ts><counter>" (gen = TRUE).
UpstreamId(n) == [gen |-> FALSE, idx |-> 0, n |-> n]
NoId == UpstreamId(0)
UpstreamIds == {UpstreamId(1), UpstreamId(2)}

ADDED == "response.output_item.added"
DONE == "response.output_item.done"
DELTA == "response.output_text.delta"

\* The event types _extract_event_type looks for that the model's streams use.
KnownEventTypes == {ADDED, DONE, DELTA}

\* One upstream line.  kind: "blank" (empty after rstrip), "other" (no
\* "data: " prefix), "done_marker" (data: [DONE]), "garbage" (data that is
\* not JSON), "data" (a JSON event).  For a JSON event: type is its "type",
\* compact tells whether it is serialised as "type":"..." with no whitespace
\* after the colon, output_index its output_index (NoIndex when absent),
\* item_id its item.id and top_id its top-level item_id (NoId when absent).
Line(kind, type, compact, output_index, item_id, top_id) ==
    [kind |-> kind, type |-> type, compact |-> compact,
     output_index |-> output_index, item_id |-> item_id, top_id |-> top_id]

PlainLine(kind) == Line(kind, "", TRUE, NoIndex, NoId, NoId)

ResponsesLines ==
    {PlainLine(k) : k \in {"blank", "other", "done_marker", "garbage"}}
    \* text that is not JSON but holds "type":"response.output_item.added"
    \cup {Line("garbage", ADDED, TRUE, NoIndex, NoId, NoId)}
    \cup {Line("data", t, TRUE, NoIndex, NoId, NoId) : t \in KnownEventTypes}
    \cup {Line("data", DELTA, FALSE, NoIndex, NoId, NoId)}
    \cup {Line("data", t, c, i, id, NoId) :
            t \in {ADDED, DONE}, c \in BOOLEAN, i \in OutputIndexes,
            id \in UpstreamIds \cup {NoId}}
    \cup {Line("data", DELTA, TRUE, i, NoId, id) :
            i \in OutputIndexes, id \in UpstreamIds \cup {NoId}}

\* _extract_event_type: the first known etype with '"type":"<etype>"' a
\* substring of the payload; None ("") when there is none.
_extract_event_type(l) ==
    IF l.compact /\ l.type \in KnownEventTypes THEN l.type ELSE ""

\* _generate_id, after the counter was incremented to n
_generate_id(output_index, n) == [gen |-> TRUE, idx |-> output_index, n |-> n]

\* self._output_items.get(output_index)
RecordedId(items, output_index) ==
    IF output_index \in DOMAIN items THEN items[output_index] ELSE NoId

\* json.dumps(payload, separators=(",", ":"))
Dumps(l) == [l EXCEPT !.compact = TRUE]

\* _handle_added: <<line emitted, _output_items, _id_counter>>
_handle_added(l, items, counter) ==
    IF l.kind = "garbage" \/ l.output_index = NoIndex
    THEN <<l, items, counter>>
    ELSE LET minted == l.item_id = NoId
             n == IF minted THEN counter + 1 ELSE counter
             item_id == IF minted THEN _generate_id(l.output_index, n)
                        ELSE l.item_id
         IN <<Dumps([l EXCEPT !.item_id = item_id]),
              [i \in DOMAIN items \cup {l.output_index} |->
                  IF i = l.output_index THEN item_id ELSE items[i]],
              n>>

\* _handle_done
_handle_done(l, items, counter) ==
    IF l.kind = "garbage" \/ l.output_index = NoIndex
    THEN <<l, items, counter>>
    ELSE LET original_id == RecordedId(items, l.output_index)
         IN <<Dumps(IF original_id # NoId
                    THEN [l EXCEPT !.item_id = original_id] ELSE l),
              items, counter>>

\* _handle_other serialising again whatever it parsed
_handle_other_dumping(l, items, counter) ==
    IF l.kind = "garbage" THEN <<l, items, counter>>
    ELSE LET original_id == IF l.output_index = NoIndex THEN NoId
                            ELSE RecordedId(items, l.output_index)
         IN <<Dumps(IF original_id # NoId THEN [l EXCEPT !.top_id = original_id] ELSE l),
              items, counter>>

\* _handle_other
_handle_other(l, items, counter) ==
    IF l.kind = "garbage" \/ l.output_index = NoIndex
    THEN <<l, items, counter>>
    ELSE LET original_id == RecordedId(items, l.output_index)
         IN IF original_id # NoId
            THEN <<Dumps([l EXCEPT !.top_id = original_id]), items, counter>>
            ELSE <<l, items, counter>>

\* ResponsesStreamIdTracker.fix_stream_data
fix_stream_data(l, event_type, items, counter) ==
    IF event_type = ADDED THEN _handle_added(l, items, counter)
    ELSE IF event_type = DONE THEN _handle_done(l, items, counter)
    ELSE _handle_other(l, items, counter)

\* a line that is not a data line and is withheld
PassThroughWithheld(l) == << >>

\* what the loop yields for a line without "data: " and for "data: [DONE]"
PassThrough(l) == <<l>>

InitResponses ==
    /\ rsPc = "reading"
    /\ rsItems = << >>
    /\ rsCounter = 0
    /\ rsIn = << >>
    /\ rsOut = << >>

IdleResponses == InitResponses

\* one iteration of the loop of fix_responses_stream over raw_lines
RsLine(l) ==
    /\ rsPc = "reading"
    /\ Len(rsIn) < MaxLines
    /\ rsIn' = Append(rsIn, l)
    /\ IF l.kind = "blank"
       THEN UNCHANGED <<rsItems, rsCounter, rsOut>>
       ELSE IF l.kind \in {"other", "done_marker"}
       THEN /\ rsOut' = rsOut \o PassThrough(l)
            /\ UNCHANGED <<rsItems, rsCounter>>
       ELSE LET r == fix_stream_data(l, _extract_event_type(l), rsItems, rsCounter)
            IN /\ rsOut' = Append(rsOut, r[1])
               /\ rsItems' = r[2]
               /\ rsCounter' = r[3]
    /\ UNCHANGED rsPc
    /\ UNCHANGED notRsVars

\* raw_lines is exhausted: the final newline
RsEnd ==
    /\ rsPc = "reading"
    /\ rsPc' = "done"
    /\ rsOut' = Append(rsOut, PlainLine("final_newline"))
    /\ UNCHANGED <<rsItems, rsCounter, rsIn>>
    /\ UNCHANGED notRsVars

NextResponses ==
    \/ \E l \in ResponsesLines : RsLine(l)
    \/ RsEnd

(***************************************************************************)
(* Streaming translator: OpenAI SSE -> Anthropic SSE                       *)
(***************************************************************************)

MaxStreamLines == 3

\* tool_calls[j].index values of the upstream
ToolIndexes == {0, 1}

\* a str, as the sequence of its characters; "" and a missing or null value
\* are both falsy and are both the empty sequence
Str(c) == <<c>>
NoStr == << >>

\* one entry of delta.tool_calls
ToolCallDelta(index, id, name, arguments) ==
    [index |-> index, id |-> id, name |-> name, arguments |-> arguments]

\* one element of chunk["choices"]
Choice(content, tool_calls, finish) ==
    [content |-> content, tool_calls |-> tool_calls, finish_reason |-> finish]

EmptyChoice == Choice(NoStr, << >>, "")

\* usage.completion_tokens of a chunk; NoUsage when the chunk has no usage
NoUsage == -1

\* One upstream line.  kind: "skip" (blank, or no "data: " prefix, or data
\* that is not JSON), "done_marker" (data: [DONE]), "chunk".
\* no_choices: the chunk has no "choices" key at all.
StreamLine(kind, choices, usage) ==
    [kind |-> kind, choices |-> choices, usage |-> usage, no_choices |-> FALSE]

Chunk(choices) == StreamLine("chunk", choices, NoUsage)

\* a chunk without the "choices" key
ChunkWithoutChoices(usage) ==
    [StreamLine("chunk", << >>, usage) EXCEPT !.no_choices = TRUE]

ToolCallDeltas ==
    {ToolCallDelta(j, "call", "fn", NoStr) : j \in ToolIndexes}
    \cup {ToolCallDelta(j, "", "", Str(a)) : j \in ToolIndexes, a \in {"a", "b"}}
    \cup {ToolCallDelta(0, "call", "fn", Str("a"))}

StreamLines ==
    {StreamLine("skip", << >>, NoUsage), StreamLine("done_marker", << >>, NoUsage)}
    \* one choice
    \cup {Chunk(<<EmptyChoice>>), Chunk(<<Choice(Str("x"), << >>, "")>>)}
    \cup {Chunk(<<Choice(NoStr, <<tc>>, "")>>) : tc \in ToolCallDeltas}
    \cup {Chunk(<<Choice(NoStr, <<ToolCallDelta(0, "", "", Str("a")),
                                  ToolCallDelta(1, "call", "fn", Str("b"))>>, "")>>),
          Chunk(<<Choice(Str("x"), <<ToolCallDelta(0, "call", "fn", Str("a"))>>, "")>>)}
    \cup {Chunk(<<Choice(NoStr, << >>, f)>>) : f \in {"stop", "tool_calls", "length"}}
    \* no choice at all (a usage-only chunk), and a chunk without "choices"
    \cup {StreamLine("chunk", << >>, 7), ChunkWithoutChoices(7)}
    \* text and tool calls split over two choices
    \cup {Chunk(<<Choice(Str("x"), << >>, ""),
                  Choice(NoStr, <<ToolCallDelta(0, "call", "fn", Str("a"))>>, "")>>),
          Chunk(<<EmptyChoice, Choice(NoStr, <<ToolCallDelta(0, "", "", Str("b"))>>, "")>>),
          Chunk(<<EmptyChoice, Choice(NoStr, << >>, "tool_calls")>>)}

\* An Anthropic SSE event, as _sse_event formats it
Event(type, index, kind, text, id, name) ==
    [type |-> type, index |-> index, kind |-> kind, text |-> text,
     id |-> id, name |-> name, stop_reason |-> "", output_tokens |-> 0]

MessageStart == Event("message_start", -1, "", NoStr, "", "")
TextBlockStart(index) == Event("content_block_start", index, "text", NoStr, "", "")
ToolBlockStart(index, id, name) ==
    Event("content_block_start", index, "tool_use", NoStr, id, name)
TextDelta(index, text) == Event("content_block_delta", index, "text_delta", text, "", "")
InputJsonDelta(index, partial_json) ==
    Event("content_block_delta", index, "input_json_delta", partial_json, "", "")
BlockStop(index) == Event("content_block_stop", index, "", NoStr, "", "")
MessageDelta(stop_reason, tokens) ==
    [Event("message_delta", -1, "", NoStr, "", "")
        EXCEPT !.stop_reason = stop_reason, !.output_tokens = tokens]
MessageStop == Event("message_stop", -1, "", NoStr, "", "")

\* the loop's locals that one chunk reads and writes
Locals ==
    [sent_text_block_start |-> sent_text_block_start,
     tool_call_trackers |-> tool_call_trackers,
     next_block_index |-> next_block_index,
     text_block_index |-> text_block_index,
     out |-> stOut]

\* the finish_reason mapping of one chunk
MapFinish(chunk_finish, current) ==
    IF chunk_finish = "" THEN current
    ELSE IF chunk_finish = "tool_calls" THEN "tool_use"
    ELSE IF chunk_finish = "length" THEN "max_tokens"
    ELSE "end_turn"

\* the index given to the text block when it is opened
TextIndexFixed(next) == 0

AllocTextIndex(next) == next

\* "if content:": open the text block on first text, then emit the delta
HandleContent(s, content) ==
    IF content = NoStr THEN s
    ELSE LET opened == s.sent_text_block_start
             idx == IF opened THEN s.text_block_index
                    ELSE AllocTextIndex(s.next_block_index)
             out1 == IF opened THEN s.out ELSE Append(s.out, TextBlockStart(idx))
         IN [s EXCEPT !.sent_text_block_start = TRUE,
                      !.text_block_index = idx,
                      !.next_block_index = IF opened THEN @ ELSE @ + 1,
                      !.out = Append(out1, TextDelta(idx, content))]

\* tc_id or f"toolu_{uuid...}"
ToolId(tc_id) == IF tc_id # "" THEN tc_id ELSE "toolu_minted"

\* the guard of the content_block_stop sent for the text block when a tool
\* call is first seen
CloseTextFirst(s) ==
    /\ s.sent_text_block_start
    /\ ~\E j \in DOMAIN s.tool_call_trackers : s.tool_call_trackers[j].text_closed
    /\ DOMAIN s.tool_call_trackers = {}

\* the body of "for tc_delta in tool_calls" for one tc_delta
HandleToolCall(s, tc) ==
    LET known == tc.index \in DOMAIN s.tool_call_trackers
        out1 == IF ~known /\ CloseTextFirst(s)
                THEN Append(s.out, BlockStop(s.text_block_index)) ELSE s.out
        block_idx == IF known THEN s.tool_call_trackers[tc.index].block_index
                     ELSE s.next_block_index
        tracker ==
            IF known
            THEN LET t == s.tool_call_trackers[tc.index]
                 IN [t EXCEPT !.id = IF tc.id # "" /\ t.id = "" THEN tc.id ELSE @,
                              !.name = IF tc.name # "" /\ t.name = "" THEN tc.name ELSE @]
            ELSE [id |-> ToolId(tc.id), name |-> tc.name, block_index |-> block_idx,
                  started |-> TRUE, text_closed |-> TRUE]
        out2 == IF known THEN out1
                ELSE Append(out1, ToolBlockStart(block_idx, tracker.id, tracker.name))
        out3 == IF tc.arguments # NoStr
                THEN Append(out2, InputJsonDelta(block_idx, tc.arguments)) ELSE out2
    IN [s EXCEPT !.tool_call_trackers =
                     [j \in DOMAIN @ \cup {tc.index} |->
                         IF j = tc.index THEN tracker ELSE @[j]],
                 !.next_block_index = IF known THEN @ ELSE @ + 1,
                 !.out = out3]

RECURSIVE HandleToolCalls(_, _)
HandleToolCalls(s, tool_calls) ==
    IF tool_calls = << >> THEN s
    ELSE HandleToolCalls(HandleToolCall(s, Head(tool_calls)), Tail(tool_calls))

\* chunk.get("choices", [{}])
ChunkChoices(chunk) ==
    IF chunk.no_choices THEN <<EmptyChoice>> ELSE chunk.choices

\* the choice of a chunk the loop reads: choices[0]
ChoiceRead(choices) == choices[1]

\* the content_block_stop events of the finalisation
RECURSIVE TrackerStops(_, _)
TrackerStops(trackers, left) ==
    IF left = {} THEN << >>
    ELSE LET j == CHOOSE x \in left : \A y \in left : x <= y
         IN <<BlockStop(trackers[j].block_index)>> \o TrackerStops(trackers, left \ {j})

Finalize(out) ==
    (IF sent_text_block_start /\ DOMAIN tool_call_trackers = {}
     THEN Append(out, BlockStop(text_block_index)) ELSE out)
    \o TrackerStops(tool_call_trackers, DOMAIN tool_call_trackers)
    \o <<MessageDelta(finish_reason, output_tokens), MessageStop>>

InitStream ==
    /\ stPc = "loop"
    /\ sent_start = FALSE
    /\ sent_text_block_start = FALSE
    /\ tool_call_trackers = << >>
    /\ next_block_index = 0
    /\ text_block_index = 0
    /\ finish_reason = "end_turn"
    /\ output_tokens = 0
    /\ stIn = << >>
    /\ stOut = << >>

IdleStream == InitStream

\* a line the loop skips: blank, not "data: ", or not JSON
StSkip(l) ==
    /\ stPc = "loop" /\ Len(stIn) < MaxStreamLines
    /\ l.kind = "skip"
    /\ stIn' = Append(stIn, l)
    /\ UNCHANGED <<stPc, sent_start, sent_text_block_start, tool_call_trackers,
                   next_block_index, text_block_index, finish_reason,
                   output_tokens, stOut>>
    /\ UNCHANGED notStVars

\* one chunk: message_start once, then choices[0] (IndexError when choices
\* is empty), its finish_reason, content and tool_calls, then the usage
StChunk(l) ==
    /\ stPc = "loop" /\ Len(stIn) < MaxStreamLines
    /\ l.kind = "chunk"
    /\ stIn' = Append(stIn, l)
    /\ sent_start' = TRUE
    /\ LET out0 == IF sent_start THEN stOut ELSE Append(stOut, MessageStart)
       IN IF ChunkChoices(l) = << >>
          THEN /\ stPc' = "raised"
               /\ stOut' = out0
               /\ UNCHANGED <<sent_text_block_start, tool_call_trackers,
                              next_block_index, text_block_index, finish_reason,
                              output_tokens>>
          ELSE LET choice == ChoiceRead(ChunkChoices(l))
                   s0 == [Locals EXCEPT !.out = out0]
                   s1 == HandleContent(s0, choice.content)
                   s2 == HandleToolCalls(s1, choice.tool_calls)
               IN /\ finish_reason' = MapFinish(choice.finish_reason, finish_reason)
                  /\ sent_text_block_start' = s2.sent_text_block_start
                  /\ tool_call_trackers' = s2.tool_call_trackers
                  /\ next_block_index' = s2.next_block_index
                  /\ text_block_index' = s2.text_block_index
                  /\ stOut' = s2.out
                  /\ output_tokens' = IF l.usage = NoUsage THEN output_tokens ELSE l.usage
                  /\ UNCHANGED stPc
    /\ UNCHANGED notStVars

\* "data: [DONE]": break, then the finalisation
StDoneMarker(l) ==
    /\ stPc = "loop" /\ Len(stIn) < MaxStreamLines
    /\ l.kind = "done_marker"
    /\ stIn' = Append(stIn, l)
    /\ stPc' = "done"
    /\ stOut' = Finalize(stOut)
    /\ UNCHANGED <<sent_start, sent_text_block_start, tool_call_trackers,
                   next_block_index, text_block_index, finish_reason, output_tokens>>
    /\ UNCHANGED notStVars

\* openai_lines is exhausted: the finalisation
StExhausted ==
    /\ stPc = "loop"
    /\ stPc' = "done"
    /\ stOut' = Finalize(stOut)
    /\ UNCHANGED <<sent_start, sent_text_block_start, tool_call_trackers,
                   next_block_index, text_block_index, finish_reason,
                   output_tokens, stIn>>
    /\ UNCHANGED notStVars

NextStream ==
    \/ \E l \in StreamLines : StSkip(l)
    \/ \E l \in StreamLines : StChunk(l)
    \/ \E l \in StreamLines : StDoneMarker(l)
    \/ StExhausted

(***************************************************************************)
(* Request translator: Anthropic messages -> OpenAI messages               *)
(***************************************************************************)

MaxTurns == 2

\* "\n".join(texts), texts a sequence of strings
RECURSIVE Join(_)
Join(texts) ==
    IF texts = << >> THEN NoStr
    ELSE IF Len(texts) = 1 THEN texts[1]
    ELSE texts[1] \o <<"\n">> \o Join(Tail(texts))

\* One block of a content list.  type: "text" (text), "image" (source:
\* "base64" or "url"), "tool_use" (id, "" when the block has no id; name),
\* "tool_result" (id is its tool_use_id; its content is a str, text, or,
\* with content_list, a list of blocks; is_error).
Block(type, id, text, source, is_error) ==
    [type |-> type, id |-> id, text |-> text, source |-> source,
     is_error |-> is_error,
     name |-> IF type = "tool_use" THEN "fn" ELSE "",
     input |-> IF type = "tool_use" THEN <<"path">> ELSE << >>,
     content_list |-> FALSE, content |-> << >>]

TextBlock(t) == Block("text", "", Str(t), "", FALSE)
ImageBlock(src) == Block("image", "", NoStr, src, FALSE)
ToolUseBlock(id) == Block("tool_use", id, NoStr, "", FALSE)
ToolResultBlock(id, err) == Block("tool_result", id, Str("r"), "", err)

\* a tool_result whose content is a list of text and image blocks
ToolResultListBlock(id, err, content) ==
    [Block("tool_result", id, NoStr, "", err) EXCEPT
       !.content_list = TRUE, !.content = content]

ToolUseIds == {"tu1", "tu2"}

\* blocks that pair up with every other in the two-block content lists
CoreBlocks ==
    {TextBlock("t")}
    \cup {ToolUseBlock(id) : id \in ToolUseIds}
    \cup {ToolResultBlock(id, FALSE) : id \in ToolUseIds}

Blocks ==
    CoreBlocks
    \cup {ImageBlock("base64"), ToolUseBlock(""), ToolResultBlock("tu1", TRUE),
          ToolResultListBlock("tu1", FALSE, <<TextBlock("a"), TextBlock("b")>>),
          ToolResultListBlock("tu2", TRUE, <<ImageBlock("base64"), TextBlock("a")>>),
          ToolResultListBlock("tu2", FALSE, << >>)}

ContentLists ==
    {<< >>}
    \cup {<<b>> : b \in Blocks}
    \cup {<<a, b>> : a \in CoreBlocks, b \in CoreBlocks}
    \cup {<<TextBlock("t"), ImageBlock("base64")>>,
          <<ImageBlock("base64"), ToolUseBlock("tu1")>>,
          <<ImageBlock("base64"), ToolResultBlock("tu1", FALSE)>>,
          <<TextBlock("t"),
            ToolResultListBlock("tu1", FALSE, <<TextBlock("a"), TextBlock("b")>>)>>}

\* One message of body["messages"]: content is a str (is_list = FALSE, text)
\* or a list of blocks (is_list = TRUE, blocks).
Message(role, is_list, text, blocks) ==
    [role |-> role, is_list |-> is_list, text |-> text, blocks |-> blocks]

InputMessages ==
    {Message(r, FALSE, Str("s"), << >>) : r \in {"user", "assistant"}}
    \cup {Message(r, TRUE, NoStr, bl) : r \in {"user", "assistant"}, bl \in ContentLists}

\* a part of an array-form content: {"type":"text",...} or {"type":"image_url",...}
Part(type, text, source) == [type |-> type, text |-> text, source |-> source]

\* message content: kind "str" (text), "null" (None), "parts" (parts)
Content(kind, text, parts) == [kind |-> kind, text |-> text, parts |-> parts]
StrContent(text) == Content("str", text, << >>)
NullContent == Content("null", NoStr, << >>)
PartsContent(parts) == Content("parts", NoStr, parts)

\* one message of the OpenAI request
OpenAIMessage(role, content, tool_calls, tool_call_id) ==
    [role |-> role, content |-> content, tool_calls |-> tool_calls,
     tool_call_id |-> tool_call_id]

IsTextOrImage(b) == b.type = "text" \/ (b.type = "image" /\ b.source \in {"base64", "url"})
IsToolUse(b) == b.type = "tool_use"
IsToolResult(b) == b.type = "tool_result"
IsTextPart(p) == p.type = "text"
IsTextBlock(b) == b.type = "text"

\* the entry appended to text_parts for a text or image block
ToPart(b) ==
    IF b.type = "text" THEN Part("text", b.text, "")
    ELSE Part("image_url", NoStr, b.source)

\* the text_parts of a content list, in block order
TextParts(blocks) ==
    LET kept == SelectSeq(blocks, IsTextOrImage)
    IN [i \in 1 .. Len(kept) |-> ToPart(kept[i])]

\* "\n".join(p["text"] for p in text_parts if p.get("type") == "text")
JoinedText(text_parts) ==
    LET kept == SelectSeq(text_parts, IsTextPart)
    IN Join([i \in 1 .. Len(kept) |-> kept[i].text])

HasNonText(text_parts) == \E i \in 1 .. Len(text_parts) : text_parts[i].type # "text"

\* tu.get("id", f"call_{uuid...}")
ToolCallIdMinted(tu) == "call_minted"

ToolCallId(tu) == IF tu.id # "" THEN tu.id ELSE "call_minted"

\* json.dumps(value): the JSON text of a value
JsonDumps(value) == <<"json">> \o value

\* one entry of assistant_msg["tool_calls"]
ToolCall(tu) ==
    [id |-> ToolCallId(tu), type |-> "function", name |-> tu.name,
     arguments |-> JsonDumps(tu.input)]

\* tool_content of one tool_result block: its str content, or the texts of
\* its content list joined with newlines
ToolContent(tr) ==
    IF tr.content_list
    THEN LET kept == SelectSeq(tr.content, IsTextBlock)
         IN Join([i \in 1 .. Len(kept) |-> kept[i].text])
    ELSE tr.text

\* the role "tool" message of a tool_result block, is_error not marked
ToolMessageUnmarked(tr) ==
    OpenAIMessage("tool", StrContent(ToolContent(tr)), << >>, tr.id)

\* the role "tool" message of one tool_result block
ToolMessage(tr) ==
    OpenAIMessage("tool",
                  StrContent(IF tr.is_error THEN <<"[ERROR] ">> \o ToolContent(tr)
                             ELSE ToolContent(tr)),
                  << >>, tr.id)

\* assistant_msg["tool_calls"]
ToolCalls(tool_use_blocks) ==
    [i \in 1 .. Len(tool_use_blocks) |-> ToolCall(tool_use_blocks[i])]

\* the role "tool" messages of the tool_result blocks, in block order
ToolMessages(tool_result_blocks) ==
    [i \in 1 .. Len(tool_result_blocks) |-> ToolMessage(tool_result_blocks[i])]

\* the messages appended for one input message (the body of the loop over
\* body["messages"])
ConvertMessage(msg) ==
    IF ~msg.is_list
    THEN <<OpenAIMessage(msg.role, StrContent(msg.text), << >>, "")>>
    ELSE
    LET text_parts == TextParts(msg.blocks)
        tool_use_blocks == SelectSeq(msg.blocks, IsToolUse)
        tool_result_blocks == SelectSeq(msg.blocks, IsToolResult)
        has_non_text == HasNonText(text_parts)
        text == JoinedText(text_parts)
    IN IF msg.role = "assistant" /\ tool_use_blocks # << >>
       THEN <<OpenAIMessage("assistant",
                            IF text_parts # << >> /\ text # NoStr
                            THEN StrContent(text) ELSE NullContent,
                            ToolCalls(tool_use_blocks), "")>>
       ELSE IF tool_result_blocks # << >>
       THEN (IF text_parts = << >> THEN << >>
             ELSE IF has_non_text \/ Len(text_parts) > 1
             THEN <<OpenAIMessage(msg.role, PartsContent(text_parts), << >>, "")>>
             ELSE IF text # NoStr
             THEN <<OpenAIMessage(msg.role, StrContent(text), << >>, "")>>
             ELSE << >>)
            \o ToolMessages(tool_result_blocks)
       ELSE IF has_non_text \/ Len(text_parts) > 1
       THEN <<OpenAIMessage(msg.role, PartsContent(text_parts), << >>, "")>>
       ELSE <<OpenAIMessage(msg.role, StrContent(text), << >>, "")>>

InitRequest ==
    /\ rqIn = << >>
    /\ rqOut = << >>

IdleRequest == InitRequest

\* one iteration of "for msg in body.get("messages", [])"
RqMessage(msg) ==
    /\ Len(rqIn) < MaxTurns
    /\ rqIn' = Append(rqIn, msg)
    /\ rqOut' = Append(rqOut, ConvertMessage(msg))
    /\ UNCHANGED notRqVars

NextRequest == \E msg \in InputMessages : RqMessage(msg)

(***************************************************************************)
(* Response translator: OpenAI completion -> Anthropic message             *)
(***************************************************************************)

\* function.arguments of a tool call: a JSON text that decodes to value, or
\* (valid = FALSE) a string json.loads rejects
Arguments(valid, value) == [valid |-> valid, value |-> value]

\* json.loads(arguments), {} when it raises
EmptyObject == << >>
DecodeArguments(arguments) ==
    IF arguments.valid THEN arguments.value ELSE EmptyObject

\* one entry of message["tool_calls"]
UpstreamToolCall(id, name, arguments) ==
    [id |-> id, name |-> name, arguments |-> arguments]

UpstreamToolCalls ==
    {UpstreamToolCall("tc1", "calc", Arguments(TRUE, <<"x">>)),
     UpstreamToolCall("tc2", "read", Arguments(FALSE, << >>))}

ToolCallLists ==
    {<< >>} \cup {<<tc>> : tc \in UpstreamToolCalls}
    \cup {<<a, b>> : a \in UpstreamToolCalls, b \in UpstreamToolCalls}

\* one element of openai_resp["choices"]: message.content, message.tool_calls
\* and finish_reason ("" when the key is missing)
ResponseChoices ==
    {Choice(c, tcs, f) :
        c \in {NoStr, Str("hello")}, tcs \in ToolCallLists,
        f \in {"", "stop", "tool_calls", "length"}}

\* the second element of a two-choice body
SecondChoices ==
    {Choice(c, tcs, "tool_calls") :
        c \in {NoStr, Str("more")},
        tcs \in {<< >>, <<UpstreamToolCall("tc1", "calc", Arguments(TRUE, <<"x">>))>>}}

\* openai_resp: its choices and its usage.completion_tokens (NoUsage when
\* the body has no "usage"); no_choices: the body has no "choices" key
ResponseBody(choices, usage) ==
    [choices |-> choices, usage |-> usage, no_choices |-> FALSE]

\* a body without the "choices" key
BodyWithoutChoices(usage) ==
    [ResponseBody(<< >>, usage) EXCEPT !.no_choices = TRUE]

ResponseBodies ==
    {ResponseBody(<< >>, 0)}
    \cup {BodyWithoutChoices(u) : u \in {NoUsage, 7}}
    \cup {ResponseBody(<<c>>, NoUsage) : c \in ResponseChoices}
    \cup {ResponseBody(<<c>>, u) : c \in ResponseChoices, u \in {0, 7}}
    \cup {ResponseBody(<<c, d>>, 7) : c \in ResponseChoices, d \in SecondChoices}

\* one Anthropic content block
ContentBlock(type, text, id, name, input) ==
    [type |-> type, text |-> text, id |-> id, name |-> name, input |-> input]

ResponseTextBlock(text) == ContentBlock("text", text, "", "", EmptyObject)

\* the tool_use block of one upstream tool call
ToolUseOf(tc) ==
    ContentBlock("tool_use", NoStr, tc.id, tc.name, DecodeArguments(tc.arguments))

\* the tool_use blocks of message["tool_calls"], in order
ToolUsesOfCalls(tool_calls) ==
    [i \in 1 .. Len(tool_calls) |-> ToolUseOf(tool_calls[i])]

\* stop_reason_map.get(finish_reason, "end_turn")
StopReason(finish) ==
    IF finish = "tool_calls" THEN "tool_use"
    ELSE IF finish = "length" THEN "max_tokens"
    ELSE "end_turn"

\* openai_resp["choices"], with no default
BodyChoicesNoDefault(openai_resp) == openai_resp.choices

\* openai_resp.get("choices", [{}])
BodyChoices(openai_resp) ==
    IF openai_resp.no_choices THEN <<EmptyChoice>> ELSE openai_resp.choices

\* usage.get("completion_tokens", 0) of openai_resp.get("usage", {})
CompletionTokens(openai_resp) ==
    IF openai_resp.usage = NoUsage THEN 0 ELSE openai_resp.usage

\* the choices whose message the translation reads: choices[0]
ChoicesRead(choices) == <<choices[1]>>

RECURSIVE TextBlocksOf(_)
\* the text blocks of the messages read, one per non-empty content
TextBlocksOf(choices) ==
    IF choices = << >> THEN << >>
    ELSE (IF Head(choices).content # NoStr
          THEN <<ResponseTextBlock(Head(choices).content)>> ELSE << >>)
         \o TextBlocksOf(Tail(choices))

RECURSIVE ToolBlocksOf(_)
\* the tool_use blocks of the messages read
ToolBlocksOf(choices) ==
    IF choices = << >> THEN << >>
    ELSE ToolUsesOfCalls(Head(choices).tool_calls) \o ToolBlocksOf(Tail(choices))

\* the content of the message returned for a body with at least one choice
ContentBlocks(choices) ==
    LET content_blocks == TextBlocksOf(ChoicesRead(choices))
                          \o ToolBlocksOf(ChoicesRead(choices))
    IN IF content_blocks = << >> THEN <<ResponseTextBlock(NoStr)>>
       ELSE content_blocks

\* the Anthropic message
AnthropicMessage(content, stop_reason, tokens) ==
    [content |-> content, stop_reason |-> stop_reason, output_tokens |-> tokens]

NoMessage == AnthropicMessage(<< >>, "", 0)

InitResponse ==
    /\ rpPc = "call"
    /\ rpIn \in ResponseBodies
    /\ rpOut = NoMessage

IdleResponse ==
    /\ rpPc = "call"
    /\ rpIn = ResponseBody(<< >>, 0)
    /\ rpOut = NoMessage

\* openai_to_anthropic_response on a body whose choices list is not empty
RpTranslate ==
    /\ rpPc = "call"
    /\ BodyChoices(rpIn) # << >>
    /\ rpPc' = "returned"
    /\ rpOut' = AnthropicMessage(ContentBlocks(BodyChoices(rpIn)),
                                 StopReason(BodyChoices(rpIn)[1].finish_reason),
                                 CompletionTokens(rpIn))
    /\ UNCHANGED rpIn
    /\ UNCHANGED notRpVars

\* openai_to_anthropic_response on "choices": []: choices[0] raises IndexError
RpRaise ==
    /\ rpPc = "call"
    /\ BodyChoices(rpIn) = << >>
    /\ rpPc' = "raised"
    /\ UNCHANGED <<rpIn, rpOut>>
    /\ UNCHANGED notRpVars

NextResponse == RpTranslate \/ RpRaise

(***************************************************************************)
(* Route handlers: /v1/messages, /v1/chat/completions, /v1/responses,      *)
(* /v1/models                                                              *)
(***************************************************************************)

MESSAGES == "/v1/messages"
CHAT_COMPLETIONS == "/v1/chat/completions"
RESPONSES == "/v1/responses"
MODELS == "/v1/models"

Routes == {MESSAGES, CHAT_COMPLETIONS, RESPONSES, MODELS}

\* How ensure_copilot_token ends inside get_ready_client: it returns a bearer,
\* or raises TokenError (no credentials; mint answered 401; mint answered
\* 403) or httpx.HTTPStatusError (raise_for_status on another status).
CredentialFailures == {"not_authenticated", "mint_401", "mint_403", "mint_status"}

\* Status codes of the upstream data endpoint; NoResponse when the request
\* fails without a response (connection error, timeout).
NoResponse == 0
UpstreamStatuses == {NoResponse, 200, 400, 401, 429, 500}

\* Bodies of an upstream answer: a JSON object with an "error" object, one
\* whose "error" is a string, one without "error", and text that is not JSON.
UpstreamBodies == {"error_object", "error_string", "json", "text"}

Upstream(status, body, translates) ==
    [status |-> status, body |-> body, translates |-> translates]

NoUpstream == Upstream(NoResponse, "", TRUE)

\* resp.raise_for_status() lets the answer through
IsSuccess(status) == status \in 200 .. 299

\* the response starlette sends for an exception no handler caught
InternalServerError == [status |-> 500, content |-> "Internal Server Error"]

\* the except branch of a data route, for an exception e raised by the client
\* call or the translation: (status_code, what the JSON body carries)
ErrorResponse(route, up) ==
    IF up.status = NoResponse \/ IsSuccess(up.status)
    THEN \* e has no .response: the 502 built before the hasattr test
         [status |-> 502, content |-> "exception_text"]
    ELSE IF route = MESSAGES
    THEN CASE up.body = "error_object" ->
                  [status |-> up.status, content |-> "upstream_error_message"]
           [] up.body = "error_string" ->
                  \* backend_error["error"].get on a str: AttributeError
                  \* inside the except block
                  InternalServerError
           [] OTHER -> [status |-> up.status, content |-> "first_500_bytes"]
    ELSE IF up.body = "text"
         THEN [status |-> up.status, content |-> "first_500_bytes"]
         ELSE [status |-> up.status, content |-> "upstream_json"]

InitEdge ==
    /\ edPc = "idle"
    /\ edRoute = ""
    /\ edStream = FALSE
    /\ edCred = ""
    /\ edUp = NoUpstream
    /\ edStatus = 0
    /\ edContent = ""

IdleEdge == InitEdge

\* a request arrives; the handler reads the body and calls get_ready_client
EdRequest(route, stream) ==
    /\ edPc = "idle"
    /\ route = MODELS => ~stream
    /\ edPc' = "get_ready_client"
    /\ edRoute' = route
    /\ edStream' = stream
    /\ UNCHANGED <<edCred, edUp, edStatus, edContent>>
    /\ UNCHANGED notEdVars

\* ensure_copilot_token raises: get_ready_client is called before the try
\* of every route, so the exception leaves the handler
EdCredentialFails(failure) ==
    /\ edPc = "get_ready_client"
    /\ edPc' = "done"
    /\ edCred' = failure
    /\ edStatus' = InternalServerError.status
    /\ edContent' = InternalServerError.content
    /\ UNCHANGED <<edRoute, edStream, edUp>>
    /\ UNCHANGED notEdVars

\* ensure_copilot_token returns a bearer; the client takes it
EdCredentialOk ==
    /\ edPc = "get_ready_client"
    /\ edPc' = "try"
    /\ edCred' = "bearer"
    /\ UNCHANGED <<edRoute, edStream, edUp, edStatus, edContent>>
    /\ UNCHANGED notEdVars

\* a non-streaming request: the client call, raise_for_status, resp.json(),
\* the translation on /v1/messages, and the except branch
EdNonStream(status, body, translates) ==
    /\ edPc = "try" /\ ~edStream
    /\ LET up == Upstream(status, body, translates)
           ok == /\ IsSuccess(status)
                 /\ body # "text"
                 /\ (edRoute = MESSAGES => translates)
           resp == IF ok THEN [status |-> 200, content |-> "result"]
                   ELSE IF edRoute = MODELS
                   THEN [status |-> 502, content |-> "exception_text"]
                   ELSE ErrorResponse(edRoute, up)
       IN /\ edUp' = up
          /\ edStatus' = resp.status
          /\ edContent' = resp.content
    /\ edPc' = "done"
    /\ UNCHANGED <<edRoute, edStream, edCred>>
    /\ UNCHANGED notEdVars

\* stream=true: the route returns sse_response(generator) without running
\* the generator; the StreamingResponse sends its status line first
EdStreamStart ==
    /\ edPc = "try" /\ edStream
    /\ edPc' = "streaming"
    /\ edStatus' = 200
    /\ edContent' = "sse"
    /\ UNCHANGED <<edRoute, edStream, edCred, edUp>>
    /\ UNCHANGED notEdVars

\* the generator runs: the upstream answers; raise_for_status raises inside
\* the generator, after the status line has gone out
EdStreamUpstream(status, body) ==
    /\ edPc = "streaming"
    /\ edUp' = Upstream(status, body, TRUE)
    /\ edPc' = IF IsSuccess(status) THEN "done" ELSE "aborted"
    /\ UNCHANGED <<edRoute, edStream, edCred, edStatus, edContent>>
    /\ UNCHANGED notEdVars

NextEdge ==
    \/ \E route \in Routes, stream \in BOOLEAN : EdRequest(route, stream)
    \/ \E failure \in CredentialFailures : EdCredentialFails(failure)
    \/ EdCredentialOk
    \/ \E status \in UpstreamStatuses, body \in UpstreamBodies, translates \in BOOLEAN :
          EdNonStream(status, body, translates)
    \/ EdStreamStart
    \/ \E status \in UpstreamStatuses, body \in UpstreamBodies :
          EdStreamUpstream(status, body)

(***************************************************************************)
(* Model list cache: CopilotClient.list_models                             *)
(***************************************************************************)

MODELS_CACHE_TTL == 300

MaxClock == 450
MaxFetches == 3

\* The clock is read at the start of each call; between calls it advances,
\* and, being the wall clock, it may be set back.
ClockStep == MODELS_CACHE_TTL \div 2

\* one entry of the upstream's list
Model(id, model_picker_enabled) ==
    [id |-> id, model_picker_enabled |-> model_picker_enabled]

\* data["data"] of a 2xx answer of the models endpoint
UpstreamModelLists ==
    {<< >>,
     <<Model("gpt-4o", TRUE)>>,
     <<Model("o1", FALSE)>>,
     <<Model("gpt-4o", TRUE), Model("o1", FALSE)>>,
     <<Model("claude-sonnet-4.5", TRUE)>>}

\* [m for m in data if m.get("model_picker_enabled", True)]
RECURSIVE PickerEnabled(_)
PickerEnabled(data) ==
    IF data = << >> THEN << >>
    ELSE (IF Head(data).model_picker_enabled THEN <<Head(data)>> ELSE << >>)
         \o PickerEnabled(Tail(data))

\* self._models_cache: None (NoCache), or the list stored by a fetch
Cached(models) == [cached |-> TRUE, models |-> models]
NoCache == [cached |-> FALSE, models |-> << >>]

\* bool(self._models_cache): None and the empty list are both falsy
CacheTruthy(cache) == cache.cached /\ cache.models # << >>

\* "if self._models_cache and (now - self._models_cache_time) < MODELS_CACHE_TTL"
CacheHit(cache, cache_time, t) ==
    CacheTruthy(cache) /\ (t - cache_time) < MODELS_CACHE_TTL

InitModels ==
    /\ mdPc = "idle"
    /\ mdNow = 0
    /\ mdCallNow = 0
    /\ mdCache = NoCache
    /\ mdCacheTime = 0
    /\ mdRet = None
    /\ mdFetches = 0
    /\ mdLastFetch = "none"

IdleModels == InitModels

\* time passes between calls
MdTick ==
    /\ mdNow + ClockStep <= MaxClock
    /\ mdNow' = mdNow + ClockStep
    /\ UNCHANGED <<mdPc, mdCallNow, mdCache, mdCacheTime, mdRet, mdFetches, mdLastFetch>>
    /\ UNCHANGED notMdVars

\* the wall clock is set back
MdClockSetBack ==
    /\ mdNow - ClockStep >= 0
    /\ mdNow' = mdNow - ClockStep
    /\ UNCHANGED <<mdPc, mdCallNow, mdCache, mdCacheTime, mdRet, mdFetches, mdLastFetch>>
    /\ UNCHANGED notMdVars

\* list_models up to its return from the cache or its await of the GET
MdCall ==
    /\ mdPc \in {"idle", "returned", "raised"}
    /\ mdCallNow' = mdNow
    /\ IF CacheHit(mdCache, mdCacheTime, mdNow)
       THEN /\ mdPc' = "returned"
            /\ mdRet' = [models |-> mdCache.models, from_cache |-> TRUE]
            /\ UNCHANGED mdFetches
       ELSE /\ mdFetches < MaxFetches
            /\ mdPc' = "fetching"
            /\ mdFetches' = mdFetches + 1
            /\ mdRet' = None
    /\ UNCHANGED <<mdNow, mdCache, mdCacheTime, mdLastFetch>>
    /\ UNCHANGED notMdVars

\* the GET answered 2xx: filter, store with the call's "now", return
MdFetchOk(data) ==
    /\ mdPc = "fetching"
    /\ LET models == PickerEnabled(data)
       IN /\ mdCache' = Cached(models)
          /\ mdCacheTime' = mdCallNow
          /\ mdRet' = [models |-> models, from_cache |-> FALSE]
    /\ mdPc' = "returned"
    /\ mdLastFetch' = "ok"
    /\ UNCHANGED <<mdNow, mdCallNow, mdFetches>>
    /\ UNCHANGED notMdVars

\* the GET failed (raise_for_status, or no response): the call raises
MdFetchFail ==
    /\ mdPc = "fetching"
    /\ mdPc' = "raised"
    /\ mdLastFetch' = "failed"
    /\ UNCHANGED <<mdNow, mdCallNow, mdCache, mdCacheTime, mdRet, mdFetches>>
    /\ UNCHANGED notMdVars

NextModels ==
    \/ MdTick
    \/ MdClockSetBack
    \/ MdCall
    \/ \E data \in UpstreamModelLists : MdFetchOk(data)
    \/ MdFetchFail

(***************************************************************************)
(* API-key gate: ApiKeyMiddleware.dispatch                                 *)
(***************************************************************************)

\* the loopback addresses with an unknown client trusted as well
LocalOrUnknown == {"127.0.0.1", "::1", "localhost", ""}

LOCALHOST_ADDRS == {"127.0.0.1", "::1", "localhost"}

PUBLIC_PATHS == {"/health", "/"}

\* values of COPILOTX_API_KEY; "" when the variable is not set
ApiKeys == {"", "k1"}

\* what a header can carry after its scheme: nothing, the configured key,
\* another key
HeaderValues == {"", "k1", "k2"}

\* the Authorization header in two parts, its first seven characters and
\* the rest; ("", "") when the header is absent
AuthorizationHeader(scheme, rest) == [scheme |-> scheme, rest |-> rest]

AuthorizationHeaders ==
    {AuthorizationHeader(sc, v) :
       sc \in {"", "Bearer ", "bearer ", "Basic  "}, v \in HeaderValues}

\* request.client.host; "" when request.client is None
ClientHosts == {"127.0.0.1", "::1", "localhost", "203.0.113.7", ""}

GateRequests ==
    [path : PUBLIC_PATHS \cup {"/v1/messages", "/v1/models"},
     client_host : ClientHosts,
     authorization : AuthorizationHeaders,
     x_api_key : HeaderValues,
     api_key : HeaderValues]

\* the token the middleware compares with COPILOTX_API_KEY: the rest of an
\* Authorization header that starts with "Bearer " or "bearer ", else the
\* x-api-key header, else the api-key header
PresentedToken(r) ==
    LET bearer == IF r.authorization.scheme \in {"Bearer ", "bearer "}
                  THEN r.authorization.rest ELSE ""
    IN IF bearer # "" THEN bearer
       ELSE IF r.x_api_key # "" THEN r.x_api_key
       ELSE r.api_key

\* TRUE when dispatch calls call_next(request)
Admits(key, r) ==
    \/ key = ""
    \/ r.path \in PUBLIC_PATHS
    \/ r.client_host \in LOCALHOST_ADDRS
    \/ PresentedToken(r) = key

InitGate ==
    /\ gtPc = "idle"
    /\ gtKey \in ApiKeys
    /\ gtReq = None
    /\ gtStatus = 0

IdleGate ==
    /\ gtPc = "idle"
    /\ gtKey = ""
    /\ gtReq = None
    /\ gtStatus = 0

\* dispatch on a request that it passes on to the route handler
GtAdmit(r) ==
    /\ gtPc = "idle"
    /\ Admits(gtKey, r)
    /\ gtPc' = "handler"
    /\ gtReq' = r
    /\ UNCHANGED <<gtKey, gtStatus>>
    /\ UNCHANGED notGtVars

\* dispatch on a request that it answers itself
GtRefuse(r) ==
    /\ gtPc = "idle"
    /\ ~Admits(gtKey, r)
    /\ gtPc' = "refused"
    /\ gtReq' = r
    /\ gtStatus' = 401
    /\ UNCHANGED gtKey
    /\ UNCHANGED notGtVars

\* the response has been sent; the next request may arrive
GtDone ==
    /\ gtPc \in {"handler", "refused"}
    /\ gtPc' = "idle"
    /\ gtReq' = None
    /\ gtStatus' = 0
    /\ UNCHANGED gtKey
    /\ UNCHANGED notGtVars

NextGate ==
    \/ \E r \in GateRequests : GtAdmit(r)
    \/ \E r \in GateRequests : GtRefuse(r)
    \/ GtDone

(***************************************************************************)
(* Request translator: tools and tool_choice of anthropic_to_openai_request *)
(***************************************************************************)

\* a key that a JSON object does not have
Missing == "<missing>"

\* one entry of body["tools"]
Tool(type, name, description, input_schema) ==
    [type |-> type, name |-> name, description |-> description,
     input_schema |-> input_schema]

\* input_schema is Missing, "{}" or a schema
AnthropicTools ==
    {Tool(Missing, "f", "d", "schema"),
     Tool("custom", "f", Missing, "{}"),
     Tool("custom", "g", "d", Missing),
     Tool(Missing, Missing, "d", "schema"),
     Tool("bash_20241022", "bash", Missing, Missing),
     Tool("bash_20241022", Missing, "d", "schema")}

\* body["tools"]: absent, or a list
ToolList(present, list) == [present |-> present, list |-> list]
NoToolList == ToolList(FALSE, << >>)

ToolLists ==
    {NoToolList, ToolList(TRUE, << >>)}
    \cup {ToolList(TRUE, <<t>>) : t \in AnthropicTools}

\* a value of body["tool_choice"]: kind "absent" (no such key), "str" (str),
\* "dict" (its "type" and "name" entries, Missing when it has none), "null",
\* "number"
ToolChoice(kind, str, type, name) ==
    [kind |-> kind, str |-> str, type |-> type, name |-> name]

NoToolChoice == ToolChoice("absent", "", Missing, Missing)
StrToolChoice(s) == ToolChoice("str", s, Missing, Missing)
DictToolChoice(type, name) == ToolChoice("dict", "", type, name)

ToolChoices ==
    {NoToolChoice, ToolChoice("null", "", Missing, Missing),
     ToolChoice("number", "", Missing, Missing)}
    \cup {StrToolChoice(s) : s \in {"auto", "any", "none", "tool", "required", ""}}
    \cup {DictToolChoice(t, n) :
            t \in {Missing, "auto", "any", "none", "tool", "function"},
            n \in {Missing, "f"}}

\* ---- the model name ----
\* A model name is the sequence of its characters.
claude == <<"c", "l", "a", "u", "d", "e">>
sonnet == <<"s", "o", "n", "n", "e", "t">>
opus == <<"o", "p", "u", "s">>
haiku == <<"h", "a", "i", "k", "u">>

\* the names the mapping returns for Claude models
CLAUDE_SONNET_4 == claude \o <<"-">> \o sonnet \o <<"-", "4">>
CLAUDE_SONNET_45 == claude \o <<"-">> \o sonnet \o <<"-", "4", ".", "5">>
CLAUDE_OPUS_41 == claude \o <<"-">> \o opus \o <<"-", "4", "1">>
CLAUDE_OPUS_45 == claude \o <<"-">> \o opus \o <<"-", "4", ".", "5">>
CLAUDE_OPUS_46 == claude \o <<"-">> \o opus \o <<"-", "4", ".", "6">>
CLAUDE_HAIKU_45 == claude \o <<"-">> \o haiku \o <<"-", "4", ".", "5">>

\* the default of body.get("model", "gpt-4o")
GPT_4O == <<"g", "p", "t", "-", "4", "o">>

\* the table with the entry of "claude-sonnet-4" pointing at claude-sonnet-4.5
TableSonnet4Upgraded ==
    {
     <<claude \o <<"-">> \o sonnet \o <<"-", "4", "-", "5", "-", "2", "0", "2", "5", "0", "9", "2", "9">>, CLAUDE_SONNET_45>>,
     <<claude \o <<"-">> \o sonnet \o <<"-", "4", ".", "5", "-", "2", "0", "2", "5", "0", "9", "2", "9">>, CLAUDE_SONNET_45>>,
     <<claude \o <<"-", "4", "-", "5", "-">> \o sonnet, CLAUDE_SONNET_45>>,
     <<claude \o <<"-", "4", ".", "5", "-">> \o sonnet, CLAUDE_SONNET_45>>,
     <<claude \o <<"-">> \o sonnet \o <<"-", "4", "-", "2", "0", "2", "5", "0", "5", "1", "4">>, CLAUDE_SONNET_4>>,
     <<claude \o <<"-">> \o sonnet \o <<"-", "4">>, CLAUDE_SONNET_45>>,
     <<claude \o <<"-", "4", "-">> \o sonnet, CLAUDE_SONNET_4>>,
     <<claude \o <<"-">> \o opus \o <<"-", "4", "-", "5", "-", "2", "0", "2", "5", "0", "9", "2", "9">>, CLAUDE_OPUS_45>>,
     <<claude \o <<"-">> \o opus \o <<"-", "4", ".", "5", "-", "2", "0", "2", "5", "0", "9", "2", "9">>, CLAUDE_OPUS_45>>,
     <<claude \o <<"-", "4", "-", "5", "-">> \o opus, CLAUDE_OPUS_45>>,
     <<claude \o <<"-", "4", ".", "5", "-">> \o opus, CLAUDE_OPUS_45>>,
     <<claude \o <<"-">> \o opus \o <<"-", "4", "-", "6">>, CLAUDE_OPUS_46>>,
     <<claude \o <<"-">> \o opus \o <<"-", "4", ".", "6">>, CLAUDE_OPUS_46>>,
     <<claude \o <<"-", "4", "-", "6", "-">> \o opus, CLAUDE_OPUS_46>>,
     <<claude \o <<"-", "4", ".", "6", "-">> \o opus, CLAUDE_OPUS_46>>,
     <<claude \o <<"-">> \o opus \o <<"-", "4", "-", "2", "0", "2", "5", "0", "5", "1", "4">>, CLAUDE_OPUS_41>>,
     <<claude \o <<"-">> \o opus \o <<"-", "4">>, CLAUDE_OPUS_41>>,
     <<claude \o <<"-", "4", "-">> \o opus, CLAUDE_OPUS_41>>,
     <<claude \o <<"-">> \o haiku \o <<"-", "4", "-", "5">>, CLAUDE_HAIKU_45>>,
     <<claude \o <<"-">> \o haiku \o <<"-", "4", ".", "5">>, CLAUDE_HAIKU_45>>,
     <<claude \o <<"-", "4", "-", "5", "-">> \o haiku, CLAUDE_HAIKU_45>>,
     <<claude \o <<"-", "4", ".", "5", "-">> \o haiku, CLAUDE_HAIKU_45>>,
     <<claude \o <<"-", "3", "-", "5", "-">> \o sonnet \o <<"-", "2", "0", "2", "4", "1", "0", "2", "2">>, CLAUDE_SONNET_4>>,
     <<claude \o <<"-", "3", "-", "5", "-">> \o sonnet \o <<"-", "2", "0", "2", "4", "0", "6", "2", "0">>, CLAUDE_SONNET_4>>,
     <<claude \o <<"-", "3", "-", "5", "-">> \o sonnet, CLAUDE_SONNET_4>>,
     <<claude \o <<"-", "3", ".", "5", "-">> \o sonnet, CLAUDE_SONNET_4>>,
     <<claude \o <<"-", "3", "-">> \o opus \o <<"-", "2", "0", "2", "4", "0", "2", "2", "9">>, CLAUDE_OPUS_41>>,
     <<claude \o <<"-", "3", "-">> \o opus, CLAUDE_OPUS_41>>,
     <<claude \o <<"-", "3", ".", "0", "-">> \o opus, CLAUDE_OPUS_41>>,
     <<claude \o <<"-", "3", "-">> \o haiku \o <<"-", "2", "0", "2", "4", "0", "3", "0", "7">>, CLAUDE_HAIKU_45>>,
     <<claude \o <<"-", "3", "-">> \o haiku, CLAUDE_HAIKU_45>>,
     <<claude \o <<"-", "3", ".", "0", "-">> \o haiku, CLAUDE_HAIKU_45>>}

\* ANTHROPIC_TO_COPILOT_MODEL_MAP, as the set of its <<key, value>> entries
ANTHROPIC_TO_COPILOT_MODEL_MAP ==
    {
     <<claude \o <<"-">> \o sonnet \o <<"-", "4", "-", "5", "-", "2", "0", "2", "5", "0", "9", "2", "9">>, CLAUDE_SONNET_45>>,
     <<claude \o <<"-">> \o sonnet \o <<"-", "4", ".", "5", "-", "2", "0", "2", "5", "0", "9", "2", "9">>, CLAUDE_SONNET_45>>,
     <<claude \o <<"-", "4", "-", "5", "-">> \o sonnet, CLAUDE_SONNET_45>>,
     <<claude \o <<"-", "4", ".", "5", "-">> \o sonnet, CLAUDE_SONNET_45>>,
     <<claude \o <<"-">> \o sonnet \o <<"-", "4", "-", "2", "0", "2", "5", "0", "5", "1", "4">>, CLAUDE_SONNET_4>>,
     <<claude \o <<"-">> \o sonnet \o <<"-", "4">>, CLAUDE_SONNET_4>>,
     <<claude \o <<"-", "4", "-">> \o sonnet, CLAUDE_SONNET_4>>,
     <<claude \o <<"-">> \o opus \o <<"-", "4", "-", "5", "-", "2", "0", "2", "5", "0", "9", "2", "9">>, CLAUDE_OPUS_45>>,
     <<claude \o <<"-">> \o opus \o <<"-", "4", ".", "5", "-", "2", "0", "2", "5", "0", "9", "2", "9">>, CLAUDE_OPUS_45>>,
     <<claude \o <<"-", "4", "-", "5", "-">> \o opus, CLAUDE_OPUS_45>>,
     <<claude \o <<"-", "4", ".", "5", "-">> \o opus, CLAUDE_OPUS_45>>,
     <<claude \o <<"-">> \o opus \o <<"-", "4", "-", "6">>, CLAUDE_OPUS_46>>,
     <<claude \o <<"-">> \o opus \o <<"-", "4", ".", "6">>, CLAUDE_OPUS_46>>,
     <<claude \o <<"-", "4", "-", "6", "-">> \o opus, CLAUDE_OPUS_46>>,
     <<claude \o <<"-", "4", ".", "6", "-">> \o opus, CLAUDE_OPUS_46>>,
     <<claude \o <<"-">> \o opus \o <<"-", "4", "-", "2", "0", "2", "5", "0", "5", "1", "4">>, CLAUDE_OPUS_41>>,
     <<claude \o <<"-">> \o opus \o <<"-", "4">>, CLAUDE_OPUS_41>>,
     <<claude \o <<"-", "4", "-">> \o opus, CLAUDE_OPUS_41>>,
     <<claude \o <<"-">> \o haiku \o <<"-", "4", "-", "5">>, CLAUDE_HAIKU_45>>,
     <<claude \o <<"-">> \o haiku \o <<"-", "4", ".", "5">>, CLAUDE_HAIKU_45>>,
     <<claude \o <<"-", "4", "-", "5", "-">> \o haiku, CLAUDE_HAIKU_45>>,
     <<claude \o <<"-", "4", ".", "5", "-">> \o haiku, CLAUDE_HAIKU_45>>,
     <<claude \o <<"-", "3", "-", "5", "-">> \o sonnet \o <<"-", "2", "0", "2", "4", "1", "0", "2", "2">>, CLAUDE_SONNET_4>>,
     <<claude \o <<"-", "3", "-", "5", "-">> \o sonnet \o <<"-", "2", "0", "2", "4", "0", "6", "2", "0">>, CLAUDE_SONNET_4>>,
     <<claude \o <<"-", "3", "-", "5", "-">> \o sonnet, CLAUDE_SONNET_4>>,
     <<claude \o <<"-", "3", ".", "5", "-">> \o sonnet, CLAUDE_SONNET_4>>,
     <<claude \o <<"-", "3", "-">> \o opus \o <<"-", "2", "0", "2", "4", "0", "2", "2", "9">>, CLAUDE_OPUS_41>>,
     <<claude \o <<"-", "3", "-">> \o opus, CLAUDE_OPUS_41>>,
     <<claude \o <<"-", "3", ".", "0", "-">> \o opus, CLAUDE_OPUS_41>>,
     <<claude \o <<"-", "3", "-">> \o haiku \o <<"-", "2", "0", "2", "4", "0", "3", "0", "7">>, CLAUDE_HAIKU_45>>,
     <<claude \o <<"-", "3", "-">> \o haiku, CLAUDE_HAIKU_45>>,
     <<claude \o <<"-", "3", ".", "0", "-">> \o haiku, CLAUDE_HAIKU_45>>}

\* model names the table does not hold
UnknownModelNames ==
    {claude \o <<"-">> \o sonnet \o <<"-", "4", "-", "5">>,
     claude \o <<"-">> \o sonnet \o <<"-", "4", "-", "5", "-", "2", "0", "2", "5", "1", "0", "0", "1">>,
     <<"C", "l", "a", "u", "d", "e", "-", "S", "o", "n", "n", "e", "t", "-", "4", "-", "5">>,
     claude \o <<"-">> \o sonnet \o <<"-", "5">>,
     claude \o <<"-", "3", "-", "7", "-">> \o sonnet,
     claude \o <<"-">> \o sonnet \o <<"-", "4", ".", "5">>,
     claude \o <<"-">> \o sonnet \o <<"-", "4", ".", "5", "-", "l", "a", "t", "e", "s", "t">>,
     claude \o <<"-", "3", ".", "7", "-">> \o sonnet,
     claude \o <<"-">> \o opus \o <<"-", "4", "-", "6", "-", "2", "0", "2", "6", "0", "1", "0", "1">>,
     claude \o <<"-">> \o opus \o <<"-", "4", "-", "5">>,
     claude \o <<"-">> \o opus \o <<"-", "4", ".", "5">>,
     claude \o <<"-">> \o opus \o <<"-", "4", "1">>,
     claude \o <<"-">> \o opus \o <<"-", "4", ".", "1">>,
     claude \o <<"-">> \o opus \o <<"-", "5">>,
     <<"C", "l", "a", "u", "d", "e", "-", "O", "P", "U", "S", "-", "4", "-", "6">>,
     claude \o <<"-">> \o haiku \o <<"-", "3">>,
     claude \o <<"-", "H", "a", "i", "k", "u">>,
     claude \o <<"-", "3", ".", "5", "-">> \o haiku,
     <<"g", "p", "t", "-", "4", "o">>,
     <<"g", "p", "t", "-", "4", ".", "1">>,
     <<"o", "3", "-", "m", "i", "n", "i">>,
     <<"g", "e", "m", "i", "n", "i", "-", "2", ".", "5", "-", "p", "r", "o">>,
     << >>,
     sonnet,
     claude \o <<"-">> \o sonnet \o <<"-">> \o opus \o <<"-", "4", "-", "6">>}

\* no "model" in the body
NoModel == <<Missing>>

ModelNames ==
    {e[1] : e \in ANTHROPIC_TO_COPILOT_MODEL_MAP} \cup UnknownModelNames

\* sub in s, for two str
Contains(s, sub) ==
    \E i \in 1 .. Len(s) - Len(sub) + 1 : SubSeq(s, i, i + Len(sub) - 1) = sub

\* str.lower(), over the letters the names are written with
LowerChar(ch) ==
    CASE ch = "C" -> "c" [] ch = "S" -> "s" [] ch = "O" -> "o"
      [] ch = "P" -> "p" [] ch = "U" -> "u" [] ch = "H" -> "h"
      [] OTHER -> ch

Lower(s) == [i \in 1 .. Len(s) |-> LowerChar(s[i])]

\* the fuzzy matching for unknown variants, on model.lower(); the model
\* itself when none of the three families is named
FuzzyMatch(model) ==
    LET model_lower == Lower(model)
    IN IF Contains(model_lower, sonnet)
       THEN IF Contains(model_lower, <<"4", "-", "5">>)
               \/ Contains(model_lower, <<"4", ".", "5">>)
            THEN CLAUDE_SONNET_45 ELSE CLAUDE_SONNET_4
       ELSE IF Contains(model_lower, opus)
       THEN IF Contains(model_lower, <<"4", "-", "6">>)
               \/ Contains(model_lower, <<"4", ".", "6">>)
            THEN CLAUDE_OPUS_46
            ELSE IF Contains(model_lower, <<"4", "-", "5">>)
                    \/ Contains(model_lower, <<"4", ".", "5">>)
            THEN CLAUDE_OPUS_45 ELSE CLAUDE_OPUS_41
       ELSE IF Contains(model_lower, haiku) THEN CLAUDE_HAIKU_45
       ELSE model

\* model in ANTHROPIC_TO_COPILOT_MODEL_MAP
InTable(model) == \E e \in ANTHROPIC_TO_COPILOT_MODEL_MAP : e[1] = model

map_anthropic_model_to_copilot(model) ==
    IF InTable(model)
    THEN (CHOOSE e \in ANTHROPIC_TO_COPILOT_MODEL_MAP : e[1] = model)[2]
    ELSE IF Contains(model, <<".">>) THEN model
    ELSE FuzzyMatch(model)

RequestBodies ==
    [tools : ToolLists, tool_choice : ToolChoices,
     model : ModelNames \cup {NoModel}]

\* a raised exception, where a function returns no value
Raised == [raised |-> TRUE]

\* one entry of openai_req["tools"]
FunctionTool(name, description, parameters) ==
    [type |-> "function", name |-> name, description |-> description,
     parameters |-> parameters]

BUILTIN_TOOL_TYPES == {"computer_20241022", "bash_20241022", "text_editor_20241022"}

\* the entry _convert_anthropic_tools appends for one tool; Raised when
\* tool["name"] is read from a tool without a name
ConvertTool(tool) ==
    LET tool_type == IF tool.type = Missing THEN "custom" ELSE tool.type
    IN IF tool_type \in BUILTIN_TOOL_TYPES
       THEN FunctionTool(IF tool.name = Missing THEN tool_type ELSE tool.name,
                         IF tool.description = Missing
                         THEN "Anthropic tool" ELSE tool.description,
                         IF tool.input_schema = Missing
                         THEN "default" ELSE tool.input_schema)
       ELSE IF tool.name = Missing THEN Raised
       ELSE FunctionTool(tool.name, tool.description,
                         IF tool.input_schema \in {Missing, "{}"}
                         THEN "default" ELSE tool.input_schema)

\* _convert_anthropic_tools
_convert_anthropic_tools(tools) ==
    LET converted == [i \in 1 .. Len(tools) |-> ConvertTool(tools[i])]
    IN IF \E i \in 1 .. Len(tools) : converted[i] = Raised
       THEN Raised
       ELSE ToolList(TRUE, converted)

\* a value of openai_req["tool_choice"]: kind "absent", "str" (str) or
\* "function" ({"type": "function", "function": {"name": name}})
OpenAIToolChoice(kind, str, name) == [kind |-> kind, str |-> str, name |-> name]
NoOpenAIToolChoice == OpenAIToolChoice("absent", "", "")
StrChoice(s) == OpenAIToolChoice("str", s, "")
FunctionChoice(name) == OpenAIToolChoice("function", "", name)

\* _convert_anthropic_tool_choice; Raised when tool_choice["name"] is read
\* from a dict without a name
_convert_anthropic_tool_choice(tool_choice) ==
    IF tool_choice.kind = "str"
    THEN IF tool_choice.str = "any" THEN StrChoice("required")
         ELSE StrChoice(tool_choice.str)
    ELSE IF tool_choice.kind = "dict"
    THEN LET tc_type == IF tool_choice.type = Missing THEN "auto"
                        ELSE tool_choice.type
         IN IF tc_type = "auto" THEN StrChoice("auto")
            ELSE IF tc_type = "any" THEN StrChoice("required")
            ELSE IF tc_type = "none" THEN StrChoice("none")
            ELSE IF tc_type = "tool"
            THEN IF tool_choice.name = Missing THEN Raised
                 ELSE FunctionChoice(tool_choice.name)
            ELSE StrChoice("auto")
    ELSE StrChoice("auto")

InitParams ==
    /\ pmPc = "model"
    /\ pmBody \in RequestBodies
    /\ pmOut = [tools |-> NoToolList, tool_choice |-> NoOpenAIToolChoice,
                model |-> NoModel]

IdleParams ==
    /\ pmPc = "model"
    /\ pmBody = [tools |-> NoToolList, tool_choice |-> NoToolChoice,
                 model |-> NoModel]
    /\ pmOut = [tools |-> NoToolList, tool_choice |-> NoOpenAIToolChoice,
                model |-> NoModel]

\* copilot_model = map_anthropic_model_to_copilot(body.get("model", "gpt-4o"))
PmModel ==
    /\ pmPc = "model"
    /\ pmPc' = "tools"
    /\ LET anthropic_model == IF pmBody.model = NoModel THEN GPT_4O
                              ELSE pmBody.model
       IN pmOut' = [pmOut EXCEPT !.model = map_anthropic_model_to_copilot(anthropic_model)]
    /\ UNCHANGED pmBody
    /\ UNCHANGED notPmVars

\* if "tools" in body: openai_req["tools"] = _convert_anthropic_tools(...)
PmTools ==
    /\ pmPc = "tools"
    /\ LET converted == IF pmBody.tools.present
                        THEN _convert_anthropic_tools(pmBody.tools.list)
                        ELSE NoToolList
       IN IF converted = Raised
          THEN /\ pmPc' = "tools_raised"
               /\ UNCHANGED pmOut
          ELSE /\ pmPc' = "tool_choice"
               /\ pmOut' = [pmOut EXCEPT !.tools = converted]
    /\ UNCHANGED pmBody
    /\ UNCHANGED notPmVars

\* if "tool_choice" in body: openai_req["tool_choice"] =
\* _convert_anthropic_tool_choice(...); return openai_req
PmToolChoice ==
    /\ pmPc = "tool_choice"
    /\ LET converted == IF pmBody.tool_choice.kind # "absent"
                        THEN _convert_anthropic_tool_choice(pmBody.tool_choice)
                        ELSE NoOpenAIToolChoice
       IN IF converted = Raised
          THEN /\ pmPc' = "tool_choice_raised"
               /\ UNCHANGED pmOut
          ELSE /\ pmPc' = "returned"
               /\ pmOut' = [pmOut EXCEPT !.tool_choice = converted]
    /\ UNCHANGED pmBody
    /\ UNCHANGED notPmVars

NextParams == PmModel \/ PmTools \/ PmToolChoice

(***************************************************************************)
(* Credential file: AuthStorage.save step by step                          *)
(***************************************************************************)

MaxSaves == 2

\* permission bits of a file: read and write for user, group, others
RW_ALL == {"ur", "uw", "gr", "gw", "or", "ow"}

\* stat.S_IRUSR | stat.S_IWUSR
S_IRUSR_S_IWUSR == {"ur", "uw"}

\* umasks of the process: 022 and 077
Umasks == {{"gw", "ow"}, {"gr", "gw", "or", "ow"}}

\* auth.json: what it holds (state "empty" after the truncating open,
\* "partial" after a write cut short, "complete" with the whole JSON text
\* of record) and its permission bits
File(state, record, mode) == [state |-> state, record |-> record, mode |-> mode]

\* expires_at of the n-th bearer minted
ExpiresAt(n) == n * (TOKEN_REFRESH_BUFFER + 1)

\* AuthStorage.load: None without a file, None when json.loads raises
\* JSONDecodeError, the record otherwise
Load(file) ==
    IF file = None THEN None
    ELSE IF file.state # "complete" THEN None
    ELSE file.record

\* what another process got from AuthStorage.load, and whether auth.json
\* existed when it ran
Read(result, existed) == [result |-> result, existed |-> existed]
NoRead == [none_yet |-> TRUE]

InitStorage ==
    /\ fsPc = "idle"
    /\ fsOp = "none"
    /\ fsCreds = None
    /\ fsFile \in {None, File("complete", Credentials("gh1"), S_IRUSR_S_IWUSR)}
    /\ fsUmask \in Umasks
    /\ fsRead = NoRead
    /\ fsRet = None
    /\ fsSaves = 0

IdleStorage ==
    /\ fsPc = "idle"
    /\ fsOp = "none"
    /\ fsCreds = None
    /\ fsFile = None
    /\ fsUmask = {"gw", "ow"}
    /\ fsRead = NoRead
    /\ fsRet = None
    /\ fsSaves = 0

\* TokenManager.save_github_token up to its call of storage.save
FsSaveGithubToken(g) ==
    /\ fsPc = "idle"
    /\ fsSaves < MaxSaves
    /\ fsCreds' = Credentials(g)
    /\ fsOp' = "save_github_token"
    /\ fsPc' = "ensure_dir"
    /\ fsSaves' = fsSaves + 1
    /\ fsRet' = None
    /\ UNCHANGED <<fsFile, fsUmask, fsRead>>
    /\ UNCHANGED notFsVars

\* ensure_copilot_token on its refresh branch, from the answer of the mint
\* endpoint up to its call of storage.save: the new bearer and its expiry
\* are stored in self._creds
FsRefresh ==
    /\ fsPc = "idle"
    /\ fsSaves < MaxSaves
    /\ LET loaded == IF fsCreds = None THEN Load(fsFile) ELSE fsCreds
       IN /\ loaded # None
          /\ fsCreds' = [loaded EXCEPT
                           !.copilot_token = Bearer(loaded.github_token, fsSaves + 1),
                           !.expires_at = ExpiresAt(fsSaves + 1)]
    /\ fsOp' = "refresh"
    /\ fsPc' = "ensure_dir"
    /\ fsSaves' = fsSaves + 1
    /\ fsRet' = None
    /\ UNCHANGED <<fsFile, fsUmask, fsRead>>
    /\ UNCHANGED notFsVars

\* ensure_copilot_token with a bearer in self._creds that is still valid
FsEnsureCached ==
    /\ fsPc = "idle"
    /\ fsCreds # None
    /\ fsCreds.copilot_token # EmptyBearer
    /\ fsOp' = "cached"
    /\ fsPc' = "returned"
    /\ fsRet' = fsCreds.copilot_token
    /\ UNCHANGED <<fsCreds, fsFile, fsUmask, fsRead, fsSaves>>
    /\ UNCHANGED notFsVars

\* self._ensure_dir()
FsEnsureDir ==
    /\ fsPc = "ensure_dir"
    /\ fsPc' = "open"
    /\ UNCHANGED <<fsOp, fsCreds, fsFile, fsUmask, fsRead, fsRet, fsSaves>>
    /\ UNCHANGED notFsVars

\* write_text opens the file for writing: an existing file is truncated and
\* keeps its mode, a new one is created with the mode the umask leaves
FsOpen ==
    /\ fsPc = "open"
    /\ fsFile' = File("empty", None,
                      IF fsFile = None THEN RW_ALL \ fsUmask ELSE fsFile.mode)
    /\ fsPc' = "write"
    /\ UNCHANGED <<fsOp, fsCreds, fsUmask, fsRead, fsRet, fsSaves>>
    /\ UNCHANGED notFsVars

\* write_text writes the JSON text and closes the file
FsWrite ==
    /\ fsPc = "write"
    /\ fsFile' = [fsFile EXCEPT !.state = "complete", !.record = fsCreds]
    /\ fsPc' = "chmod"
    /\ UNCHANGED <<fsOp, fsCreds, fsUmask, fsRead, fsRet, fsSaves>>
    /\ UNCHANGED notFsVars

\* self.path.chmod(stat.S_IRUSR | stat.S_IWUSR), then save returns and so
\* does its caller: ensure_copilot_token with the new bearer
FsChmod ==
    /\ fsPc = "chmod"
    /\ fsFile' = [fsFile EXCEPT !.mode = S_IRUSR_S_IWUSR]
    /\ fsPc' = "returned"
    /\ fsRet' = IF fsOp = "refresh" THEN fsCreds.copilot_token ELSE None
    /\ UNCHANGED <<fsOp, fsCreds, fsUmask, fsRead, fsSaves>>
    /\ UNCHANGED notFsVars

\* a step of save raises OSError (no permission, read-only or full file
\* system): the open leaves the file as it was, the write leaves it empty
\* or cut short; neither save nor its caller catches the exception
FsSaveFails(cut) ==
    /\ fsPc \in {"ensure_dir", "open", "write", "chmod"}
    /\ fsFile' = IF fsPc = "write"
                 THEN [fsFile EXCEPT !.state = cut,
                                     !.record = IF cut = "partial" THEN fsCreds
                                                ELSE None]
                 ELSE fsFile
    /\ fsPc' = "raised"
    /\ fsRet' = Raised
    /\ UNCHANGED <<fsOp, fsCreds, fsUmask, fsRead, fsSaves>>
    /\ UNCHANGED notFsVars

\* the process is killed inside save
FsCrash ==
    /\ fsPc \in {"ensure_dir", "open", "write", "chmod"}
    /\ fsPc' = "crashed"
    /\ fsCreds' = None
    /\ UNCHANGED <<fsOp, fsFile, fsUmask, fsRead, fsRet, fsSaves>>
    /\ UNCHANGED notFsVars

\* AuthStorage.load in another process
FsLoad ==
    /\ fsRead' = Read(Load(fsFile), fsFile # None)
    /\ UNCHANGED <<fsPc, fsOp, fsCreds, fsFile, fsUmask, fsRet, fsSaves>>
    /\ UNCHANGED notFsVars

\* the operation is over; the next one may start
FsDone ==
    /\ fsPc \in {"returned", "raised"}
    /\ fsPc' = "idle"
    /\ fsOp' = "none"
    /\ fsRet' = None
    /\ UNCHANGED <<fsCreds, fsFile, fsUmask, fsRead, fsSaves>>
    /\ UNCHANGED notFsVars

NextStorage ==
    \/ \E g \in GrantTokens : FsSaveGithubToken(g)
    \/ FsRefresh
    \/ FsEnsureCached
    \/ FsEnsureDir
    \/ FsOpen
    \/ FsWrite
    \/ FsChmod
    \/ \E cut \in {"empty", "partial"} : FsSaveFails(cut)
    \/ FsCrash
    \/ FsLoad
    \/ FsDone

(***************************************************************************)
(* Device flow: poll_for_access_token                                      *)
(***************************************************************************)

DEVICE_CODE_POLL_INTERVAL == 5
DEVICE_CODE_TIMEOUT == 900

MaxPolls == 4

\* the "interval" of the device-code response, in seconds;
\* DEVICE_CODE_POLL_INTERVAL when the response has none
Intervals == {0, 1, DEVICE_CODE_POLL_INTERVAL, 300, 450}

\* what the access-token URL answers to one POST: a body with
\* "access_token", a body with one of the "error" values, or a status that
\* raise_for_status refuses
PollReplies ==
    {"access_token", "authorization_pending", "slow_down", "expired_token",
     "access_denied", "unsupported_grant_type", "http_error"}

\* the OAuthError messages of the function
OAuthErrors == {"expired_token", "access_denied", "unexpected", "timed_out"}

\* elapsed = 0; poll_interval = interval
InitDevice ==
    /\ dfPc = "loop"
    /\ elapsed = 0
    /\ poll_interval \in Intervals
    /\ dfPolls = 0
    /\ dfResult = ""

IdleDevice ==
    /\ dfPc = "loop"
    /\ elapsed = 0
    /\ poll_interval = DEVICE_CODE_POLL_INTERVAL
    /\ dfPolls = 0
    /\ dfResult = ""

\* while elapsed < timeout: sleep(poll_interval); elapsed += poll_interval;
\* then the POST
DfPoll ==
    /\ dfPc = "loop"
    /\ elapsed < DEVICE_CODE_TIMEOUT
    /\ dfPolls < MaxPolls
    /\ elapsed' = elapsed + poll_interval
    /\ dfPolls' = dfPolls + 1
    /\ dfPc' = "posted"
    /\ UNCHANGED <<poll_interval, dfResult>>
    /\ UNCHANGED notDfVars

\* the reply to the POST
DfReply(reply) ==
    /\ dfPc = "posted"
    /\ IF reply = "http_error"
       THEN /\ dfPc' = "raised" /\ dfResult' = "HTTPStatusError"
            /\ UNCHANGED poll_interval
       ELSE IF reply = "access_token"
       THEN /\ dfPc' = "returned" /\ dfResult' = "access_token"
            /\ UNCHANGED poll_interval
       ELSE IF reply = "authorization_pending"
       THEN /\ dfPc' = "loop"
            /\ UNCHANGED <<poll_interval, dfResult>>
       ELSE IF reply = "slow_down"
       THEN /\ dfPc' = "loop"
            /\ poll_interval' = poll_interval + 5
            /\ UNCHANGED dfResult
       ELSE /\ dfPc' = "raised"
            /\ dfResult' = (IF reply \in {"expired_token", "access_denied"}
                            THEN reply ELSE "unexpected")
            /\ UNCHANGED poll_interval
    /\ UNCHANGED <<elapsed, dfPolls>>
    /\ UNCHANGED notDfVars

\* the loop condition fails: raise OAuthError("Timed out ...")
DfTimeout ==
    /\ dfPc = "loop"
    /\ elapsed >= DEVICE_CODE_TIMEOUT
    /\ dfPc' = "raised"
    /\ dfResult' = "timed_out"
    /\ UNCHANGED <<elapsed, poll_interval, dfPolls>>
    /\ UNCHANGED notDfVars

NextDevice ==
    \/ DfPoll
    \/ \E reply \in PollReplies : DfReply(reply)
    \/ DfTimeout

(***************************************************************************)
(* POST /v1/responses: the X-Initiator header                              *)
(***************************************************************************)

MaxItems == 2

\* One element of body["input"].  is_dict = FALSE: an element that is not
\* an object (a string); role and type are Missing when the key is absent.
Item(is_dict, role, type) == [is_dict |-> is_dict, role |-> role, type |-> type]

InputItems ==
    {Item(TRUE, r, t) :
        r \in {Missing, "user", "assistant", "Assistant"},
        t \in {Missing, "message", "function_call", "function_call_output",
               "reasoning", "Function_Call"}}
    \cup {Item(FALSE, Missing, Missing)}

\* body["input"]: a list of items, or (is_list = FALSE) a string or no key
Input(is_list, items) == [is_list |-> is_list, items |-> items]

ItemLists ==
    UNION {[1 .. n -> InputItems] : n \in 0 .. MaxItems}

Inputs == {Input(FALSE, << >>)} \cup {Input(TRUE, l) : l \in ItemLists}

\* str.lower(), over the role and type values
LowerWord(w) ==
    CASE w = "Assistant" -> "assistant"
      [] w = "Function_Call" -> "function_call"
      [] OTHER -> w

\* dict.get(key, "") of a role or type
GetOrEmpty(value) == IF value = Missing THEN "" ELSE value

\* has_agent_initiator, reading the first item instead of the last
has_agent_initiator_first(input_data) ==
    IF ~input_data.is_list \/ input_data.items = << >> THEN FALSE
    ELSE LET first_item == input_data.items[1]
         IN IF ~first_item.is_dict THEN FALSE
            ELSE \/ LowerWord(GetOrEmpty(first_item.role)) = "assistant"
                 \/ LowerWord(GetOrEmpty(first_item.type))
                       \in {"function_call", "function_call_output", "reasoning"}

has_agent_initiator(input_data) ==
    IF ~input_data.is_list \/ input_data.items = << >> THEN FALSE
    ELSE LET last_item == input_data.items[Len(input_data.items)]
         IN IF ~last_item.is_dict THEN FALSE
            ELSE \/ LowerWord(GetOrEmpty(last_item.role)) = "assistant"
                 \/ LowerWord(GetOrEmpty(last_item.type))
                       \in {"function_call", "function_call_output", "reasoning"}

\* CopilotClient._responses_extra_headers; Missing: the header is not set
_responses_extra_headers(vision, initiator) ==
    [x_initiator |-> initiator,
     copilot_vision_request |-> IF vision THEN "true" ELSE Missing]

NoHeaders == [x_initiator |-> Missing, copilot_vision_request |-> Missing]

InitInitiator ==
    /\ inPc = "call"
    /\ inBody \in Inputs
    /\ inVision \in BOOLEAN
    /\ inHeaders = NoHeaders

IdleInitiator ==
    /\ inPc = "call"
    /\ inBody = Input(FALSE, << >>)
    /\ inVision = FALSE
    /\ inHeaders = NoHeaders

\* the handler derives the initiator, and the client builds the headers of
\* the upstream request with it
InSend ==
    /\ inPc = "call"
    /\ inPc' = "sent"
    /\ LET initiator == IF has_agent_initiator(inBody) THEN "agent" ELSE "user"
       IN inHeaders' = _responses_extra_headers(inVision, initiator)
    /\ UNCHANGED <<inBody, inVision>>
    /\ UNCHANGED notInVars

NextInitiator == InSend

(***************************************************************************)
(* Specifications                                                          *)
(***************************************************************************)

\* every part but the one a specification runs is at rest
IdleServer == IdleEdge /\ IdleModels

\* the gate, the request parameters and the credential file at rest
IdleLocal == IdleGate /\ IdleParams /\ IdleStorage

\* the device flow and the initiator derivation at rest
IdleClient == IdleDevice /\ IdleInitiator

InitSpecToken ==
    InitToken /\ IdleResponses /\ IdleStream /\ IdleRequest /\ IdleResponse /\ IdleServer
    /\ IdleLocal
    /\ IdleClient

SpecToken == InitSpecToken /\ [][NextToken]_vars

InitSpecResponses ==
    InitResponses /\ IdleToken /\ IdleStream /\ IdleRequest /\ IdleResponse /\ IdleServer
    /\ IdleLocal
    /\ IdleClient

SpecResponses == InitSpecResponses /\ [][NextResponses]_vars

InitSpecStream ==
    InitStream /\ IdleToken /\ IdleResponses /\ IdleRequest /\ IdleResponse /\ IdleServer
    /\ IdleLocal
    /\ IdleClient

SpecStream == InitSpecStream /\ [][NextStream]_vars

InitSpecRequest ==
    InitRequest /\ IdleToken /\ IdleResponses /\ IdleStream /\ IdleResponse /\ IdleServer
    /\ IdleLocal
    /\ IdleClient

SpecRequest == InitSpecRequest /\ [][NextRequest]_vars

InitSpecResponse ==
    InitResponse /\ IdleToken /\ IdleResponses /\ IdleStream /\ IdleRequest /\ IdleServer
    /\ IdleLocal
    /\ IdleClient

SpecResponse == InitSpecResponse /\ [][NextResponse]_vars

InitSpecEdge ==
    InitEdge /\ IdleToken /\ IdleResponses /\ IdleStream /\ IdleRequest
             /\ IdleResponse /\ IdleModels /\ IdleLocal
    /\ IdleClient

SpecEdge == InitSpecEdge /\ [][NextEdge]_vars

InitSpecModels ==
    InitModels /\ IdleToken /\ IdleResponses /\ IdleStream /\ IdleRequest
               /\ IdleResponse /\ IdleEdge /\ IdleLocal
    /\ IdleClient

SpecModels == InitSpecModels /\ [][NextModels]_vars

InitSpecGate ==
    InitGate /\ IdleToken /\ IdleResponses /\ IdleStream /\ IdleRequest
             /\ IdleResponse /\ IdleServer /\ IdleParams /\ IdleStorage
    /\ IdleClient

SpecGate == InitSpecGate /\ [][NextGate]_vars

InitSpecParams ==
    InitParams /\ IdleToken /\ IdleResponses /\ IdleStream /\ IdleRequest
               /\ IdleResponse /\ IdleServer /\ IdleGate /\ IdleStorage
    /\ IdleClient

SpecParams == InitSpecParams /\ [][NextParams]_vars

InitSpecStorage ==
    InitStorage /\ IdleToken /\ IdleResponses /\ IdleStream /\ IdleRequest
                /\ IdleResponse /\ IdleServer /\ IdleGate /\ IdleParams
    /\ IdleClient

SpecStorage == InitSpecStorage /\ [][NextStorage]_vars

InitSpecDevice ==
    InitDevice /\ IdleToken /\ IdleResponses /\ IdleStream /\ IdleRequest
               /\ IdleResponse /\ IdleServer /\ IdleLocal /\ IdleInitiator

SpecDevice == InitSpecDevice /\ [][NextDevice]_vars

InitSpecInitiator ==
    InitInitiator /\ IdleToken /\ IdleResponses /\ IdleStream /\ IdleRequest
                  /\ IdleResponse /\ IdleServer /\ IdleLocal /\ IdleDevice

SpecInitiator == InitSpecInitiator /\ [][NextInitiator]_vars

(***************************************************************************)
(* Credential manager: properties                                          *)
(***************************************************************************)

\* C1: single-flight refresh: at most one mint request is in flight at any
\* time; callers that find the bearer expired while a refresh is in flight
\* wait for it instead of sending their own.
C1_SingleFlight == Cardinality({c \in Callers : pc[c] = "fetching"}) <= 1

\* C2: whenever ensure_copilot_token has returned a bearer, the expires_at
\* recorded for it is strictly greater than now + TOKEN_REFRESH_BUFFER at the
\* moment of return.
C2_BearerFresh ==
    \A c \in Callers :
        pc[c] = "returned" => ret[c].expires_at > ret[c].at + TOKEN_REFRESH_BUFFER


\* the record ensure_copilot_token works on: self._creds, loaded from
\* auth.json when there is none in memory
InForce == IF creds = None THEN disk ELSE creds

\* the stored bearer is empty or within the refresh buffer of its expiry
NeedsMint(c) ==
    c.copilot_token = EmptyBearer \/ c.expires_at <= now + TOKEN_REFRESH_BUFFER

\* C12: a mint request is sent only by a call that found credentials whose
\* bearer is empty or has expires_at <= now + 60; a call that finds no
\* credentials in memory or on disk fails as not authenticated and sends
\* nothing; a call that finds a non-empty bearer with expires_at > now + 60
\* returns that bearer, sends nothing and leaves the record and auth.json
\* as they are.
C12_ExchangePrecondition ==
    [][/\ mints' # mints =>
             \E c \in Callers :
                /\ pc[c] = "idle" /\ pc'[c] = "fetching"
                /\ InForce # None /\ NeedsMint(InForce)
                /\ mints' = mints + 1
       /\ \A c \in Callers : (pc[c] = "idle" /\ pc'[c] # "idle") =>
             /\ InForce = None =>
                   /\ pc'[c] = "not_authenticated"
                   /\ mints' = mints /\ creds' = None /\ disk' = disk
             /\ (InForce # None /\ ~NeedsMint(InForce)) =>
                   /\ pc'[c] = "returned"
                   /\ ret'[c].bearer = InForce.copilot_token
                   /\ mints' = mints /\ creds' = InForce /\ disk' = disk
             /\ (InForce # None /\ NeedsMint(InForce)) =>
                   /\ pc'[c] = "fetching" /\ mints' = mints + 1]_vars

\* C12's case: one caller was handed the stored bearer without a mint while
\* another, later, found it within the buffer and sent a mint request
C12_Witness ==
    \E c, d \in Callers :
        /\ pc[c] = "returned" /\ ~ret[c].minted
        /\ pc[d] = "fetching"
        /\ creds # None
        /\ creds.copilot_token # EmptyBearer

\* C13: a call whose mint request is answered with a failure ends in an
\* error after the one request it sent: the failure sends no further
\* request and leaves the in-memory record and auth.json as they are, and
\* the call that failed does nothing more.
C13_FailedMint ==
    [][\A c \in Callers :
          /\ (pc[c] = "idle" /\ pc'[c] = "fetching") =>
                /\ mints' = mints + 1
                /\ creds' = InForce /\ disk' = disk
          /\ (pc[c] = "fetching" /\ pc'[c] = "error") =>
                /\ mints' = mints
                /\ creds' = creds /\ disk' = disk
          /\ pc[c] = "fetching" => pc'[c] \in {"fetching", "error", "returned"}
          /\ pc[c] = "error" =>
                /\ pc'[c] \in {"error", "idle"}
                /\ pc'[c] = "idle" => (mints' = mints /\ creds' = creds /\ disk' = disk)]_vars

\* C13's case: the only mint request so far failed, and the record still
\* holds the stale bearer that auth.json held at the start
C13_Witness ==
    \E c \in Callers :
        /\ pc[c] = "error" /\ mints = 1
        /\ creds # None /\ creds.copilot_token = Bearer("gh1", 0)
        /\ disk = creds

\* C14: a 2xx mint response leaves its token and expires_at in the record,
\* and its endpoints.api, when it carries one, as the record's api_base_url;
\* the record is saved to auth.json as it then is.
C14_SuccessfulMint ==
    [][\A c \in Callers : (pc[c] = "fetching" /\ pc'[c] = "returned") =>
          /\ creds'.copilot_token = ret'[c].bearer
          /\ creds'.expires_at = ret'[c].expires_at
          /\ ret'[c].endpoints_api # Empty =>
                creds'.api_base_url = ret'[c].endpoints_api
          /\ disk' = creds']_vars

\* C14 without the base URL: the token and expires_at of a 2xx mint response
\* are stored and saved
C14_TokenAndExpiryStored ==
    [][\A c \in Callers : (pc[c] = "fetching" /\ pc'[c] = "returned") =>
          /\ creds'.copilot_token = ret'[c].bearer
          /\ creds'.expires_at = ret'[c].expires_at
          /\ disk' = creds']_vars

\* the record holds no bearer, or one minted from the record's own grant
BearerOfOwnGrant(c) ==
    (c # None /\ c.copilot_token # EmptyBearer) =>
        c.copilot_token.grant = c.github_token

\* C37: in every reachable state a non-empty bearer held in the in-memory
\* record or in auth.json was minted from the grant token stored in that
\* same record, also when save_github_token or logout ran while a refresh
\* was suspended awaiting the upstream.
C37_BearerOfGrant ==
    BearerOfOwnGrant(creds) /\ BearerOfOwnGrant(disk)

\* C37 for the steps of a refresh during which the grant was not replaced:
\* the bearer stored is one minted from the grant the refresh sent.
C37_StoredAsMinted ==
    [][\A c \in Callers :
          (pc[c] = "fetching" /\ pc'[c] = "returned") =>
              /\ creds'.copilot_token = req[c]
              /\ disk' = creds'
              /\ (creds.github_token = req[c].grant) => BearerOfOwnGrant(creds')]_vars

(***************************************************************************)
(* Route handlers: properties                                              *)
(***************************************************************************)

\* C15: a request whose credential step fails is answered 401 when no grant
\* is stored or the mint endpoint answered 401, and 403 when the mint
\* endpoint answered 403.
C15_CredentialErrorStatus ==
    edPc = "done" =>
        /\ edCred \in {"not_authenticated", "mint_401"} => edStatus = 401
        /\ edCred = "mint_403" => edStatus = 403

\* a data request whose upstream answered with a non-2xx status
UpstreamRefused ==
    /\ edPc \in {"done", "aborted"}
    /\ edRoute # MODELS
    /\ edCred = "bearer"
    /\ edUp.status # NoResponse /\ ~IsSuccess(edUp.status)

\* C16: a proxied data request, streaming or not, whose upstream answered
\* with a non-2xx status is answered with that same status, carrying the
\* upstream's error envelope when the body is JSON and the first 500 bytes
\* of the body otherwise.
C16_UpstreamStatusSurfaced ==
    UpstreamRefused =>
        /\ edStatus = edUp.status
        /\ edUp.body = "text" => edContent = "first_500_bytes"
        /\ (edUp.body # "text" /\ edRoute # MESSAGES) => edContent = "upstream_json"
        /\ (edUp.body \in {"error_object", "error_string"} /\ edRoute = MESSAGES) =>
              edContent = "upstream_error_message"

\* C16 for non-streaming requests whose upstream body is not an object with
\* a string under "error"
C16_NonStreamingSurfaced ==
    (~edStream /\ edUp.body # "error_string") => C16_UpstreamStatusSurfaced

C17_CacheHit ==
    [][(mdPc # "fetching" /\ mdPc' # mdPc /\ mdCache.cached) =>
          IF mdNow - mdCacheTime < MODELS_CACHE_TTL
          THEN /\ mdPc' = "returned"
               /\ mdRet' = [models |-> mdCache.models, from_cache |-> TRUE]
               /\ mdFetches' = mdFetches
          ELSE /\ mdPc' = "fetching"
               /\ mdFetches' = mdFetches + 1]_vars

\* C17 for fetched lists that are not empty
C17_CacheHitNonEmpty ==
    [][(mdPc # "fetching" /\ mdPc' # mdPc /\ mdCache.cached
          /\ mdCache.models # << >>) =>
          IF mdNow - mdCacheTime < MODELS_CACHE_TTL
          THEN /\ mdPc' = "returned"
               /\ mdRet' = [models |-> mdCache.models, from_cache |-> TRUE]
               /\ mdFetches' = mdFetches
          ELSE /\ mdPc' = "fetching"
               /\ mdFetches' = mdFetches + 1]_vars

\* C18: after a failed fetch no call returns a list from the cache until a
\* fetch has succeeded, whatever the clock reads.
C18_ErrorInvalidatesCache ==
    (mdPc = "returned" /\ mdRet.from_cache) => mdLastFetch # "failed"

(***************************************************************************)
(* Responses stream rewriter: properties                                   *)
(***************************************************************************)

\* the id an emitted event carries for its item: item.id on added and done
\* events, the top-level item_id on every other event
EventId(l) == IF l.type \in {ADDED, DONE} THEN l.item_id ELSE l.top_id

IsEvent(l, type, k) == l.kind = "data" /\ l.type = type /\ l.output_index = k

\* C3: in the emitted stream, for every output_index k, every event bearing k
\* from an added event up to and including its matching done event carries
\* the id of that added event.
C3_IdStability ==
    \A k \in OutputIndexes : \A i \in 1 .. Len(rsOut) : \A j \in i + 1 .. Len(rsOut) :
        ( /\ IsEvent(rsOut[i], ADDED, k)
          /\ rsOut[j].kind = "data" /\ rsOut[j].output_index = k
          /\ \A m \in i + 1 .. j - 1 :
                ~IsEvent(rsOut[m], ADDED, k) /\ ~IsEvent(rsOut[m], DONE, k)
          /\ ~IsEvent(rsOut[j], ADDED, k) )
        => EventId(rsOut[j]) = EventId(rsOut[i])

\* C3, for upstreams that serialise every event compactly ("type":"...")
C3_IdStabilityCompact ==
    (\A i \in 1 .. Len(rsIn) : rsIn[i].compact) => C3_IdStability

\* the lines of raw_lines that are not empty, in arrival order
RECURSIVE NonEmptyLines(_)
NonEmptyLines(lines) ==
    IF lines = << >> THEN << >>
    ELSE (IF Head(lines).kind = "blank" THEN << >> ELSE <<Head(lines)>>)
         \o NonEmptyLines(Tail(lines))

\* the lines emitted for input lines: all of rsOut but the final newline
EmittedLines == IF rsPc = "done" THEN SubSeq(rsOut, 1, Len(rsOut) - 1) ELSE rsOut

\* an emitted line is the rewriting of an input line: the same line but for
\* its ids and its serialisation
RewritingOf(out, in) ==
    /\ out.kind = in.kind /\ out.type = in.type /\ out.output_index = in.output_index

PassedThrough(l) ==
    \/ l.kind \in {"other", "done_marker", "garbage"}
    \/ l.kind = "data" /\ l.output_index = NoIndex

StPos == 1 .. Len(stOut)

IsStart(i) == stOut[i].type = "content_block_start"
IsStop(i) == stOut[i].type = "content_block_stop"
IsDelta(i) == stOut[i].type = "content_block_delta"

\* the number of content_block_start events emitted before position i
StartsBefore(i) == Cardinality({m \in 1 .. i - 1 : IsStart(m)})

C5_ClosedOnce ==
    stPc = "done" =>
        \A i \in StPos : IsStart(i) =>
            /\ Cardinality({m \in StPos : IsStop(m) /\ stOut[m].index = stOut[i].index}) = 1
            /\ \A m \in StPos : \A d \in StPos :
                  (IsStop(m) /\ stOut[m].index = stOut[i].index
                     /\ stOut[d].type = "message_delta") => m < d

\* C6: every content_block_delta carries an index whose content_block_start
\* was emitted before it and whose content_block_stop was not.
C6_DeltaOnOpen ==
    \A i \in StPos : IsDelta(i) =>
        /\ \E m \in 1 .. i - 1 : IsStart(m) /\ stOut[m].index = stOut[i].index
        /\ ~\E m \in 1 .. i - 1 : IsStop(m) /\ stOut[m].index = stOut[i].index

RECURSIVE ConcatArgs(_, _)
\* the arguments of the fragments of tool call j among tool_calls, in order
ConcatArgs(tool_calls, j) ==
    IF tool_calls = << >> THEN NoStr
    ELSE (IF Head(tool_calls).index = j THEN Head(tool_calls).arguments ELSE NoStr)
         \o ConcatArgs(Tail(tool_calls), j)

RECURSIVE ChoicesArgs(_, _)
ChoicesArgs(choices, j) ==
    IF choices = << >> THEN NoStr
    ELSE ConcatArgs(Head(choices).tool_calls, j) \o ChoicesArgs(Tail(choices), j)

RECURSIVE UpstreamArgs(_, _)
\* all upstream fragments of tool call j, of every choice, in arrival order
UpstreamArgs(lines, j) ==
    IF lines = << >> THEN NoStr
    ELSE ChoicesArgs(Head(lines).choices, j) \o UpstreamArgs(Tail(lines), j)

RECURSIVE EmittedJson(_, _)
\* the partial_json of the input_json_delta events with the given index
EmittedJson(events, index) ==
    IF events = << >> THEN NoStr
    ELSE (IF Head(events).kind = "input_json_delta" /\ Head(events).index = index
          THEN Head(events).text ELSE NoStr)
         \o EmittedJson(Tail(events), index)

\* what the stream carries for tool call j: the deltas of j's block
EmittedArgs(j) ==
    IF j \in DOMAIN tool_call_trackers
    THEN EmittedJson(stOut, tool_call_trackers[j].block_index)
    ELSE NoStr

\* C7: for every tool-call index j, the partial_json of the input_json_delta
\* events of j's block, concatenated in emission order, is the concatenation
\* of all upstream arguments fragments of j in arrival order.
C7_ArgsConcat ==
    \A j \in ToolIndexes : EmittedArgs(j) = UpstreamArgs(stIn, j)

\* C7 for upstreams that put every fragment in choices[0]
C7_ArgsConcatFirstChoice ==
    (\A i \in 1 .. Len(stIn) : \A c \in 2 .. Len(stIn[i].choices) :
        stIn[i].choices[c].tool_calls = << >>) => C7_ArgsConcat

\* C31, the streaming half: the loop raises on no chunk but one whose
\* choices list is present and empty; a chunk without "choices" opens no
\* block and leaves the stop_reason alone.
C31_DefensiveStream ==
    [][/\ stPc' = "raised" =>
             (~stIn'[Len(stIn')].no_choices /\ stIn'[Len(stIn')].choices = << >>)
       /\ (Len(stIn') > Len(stIn) /\ stIn'[Len(stIn')].no_choices) =>
             /\ stPc' = "loop"
             /\ finish_reason' = finish_reason
             /\ next_block_index' = next_block_index
             /\ stOut' = (IF sent_start THEN stOut ELSE <<MessageStart>>)]_vars

\* the non-empty arguments fragments of tool_calls, in order
FragmentsOf(tool_calls) ==
    SelectSeq([i \in 1 .. Len(tool_calls) |-> tool_calls[i].arguments],
              LAMBDA a : a # NoStr)

RECURSIVE ChoicesFragments(_)
ChoicesFragments(choices) ==
    IF choices = << >> THEN << >>
    ELSE FragmentsOf(Head(choices).tool_calls) \o ChoicesFragments(Tail(choices))

RECURSIVE Fragments(_, _)
\* the non-empty arguments fragments of the chunks, in arrival order
Fragments(lines, first_only) ==
    IF lines = << >> THEN << >>
    ELSE LET choices == IF first_only /\ Len(Head(lines).choices) > 1
                        THEN <<Head(lines).choices[1]>> ELSE Head(lines).choices
         IN ChoicesFragments(choices) \o Fragments(Tail(lines), first_only)

\* the partial_json of the input_json_delta events, in emission order
PartialJsons ==
    LET deltas == SelectSeq(stOut, LAMBDA e : e.kind = "input_json_delta")
    IN [i \in 1 .. Len(deltas) |-> deltas[i].text]

\* C32, the streaming half: every non-empty arguments fragment of the
\* upstream is forwarded verbatim, once, as the partial_json of an
\* input_json_delta event, in arrival order.
C32_FragmentsForwarded ==
    PartialJsons = Fragments(stIn, FALSE)

\* C32 for the fragments carried in choices[0]
C32_FragmentsForwardedFirstChoice ==
    PartialJsons = Fragments(stIn, TRUE)

\* a chunk whose choices list is present and empty
IsEmptyChoicesChunk(l) ==
    l.kind = "chunk" /\ ~l.no_choices /\ l.choices = << >>

\* C38: a chunk whose choices list is present and empty is processed
\* without raising: it emits no content-block event, its usage is recorded
\* and the loop goes on with the following chunks.
C38_EmptyChoicesChunk ==
    [][(Len(stIn') > Len(stIn) /\ IsEmptyChoicesChunk(stIn'[Len(stIn')])) =>
          /\ stPc' = "loop"
          /\ stOut' = (IF sent_start THEN stOut ELSE <<MessageStart>>)
          /\ stIn'[Len(stIn')].usage # NoUsage =>
                output_tokens' = stIn'[Len(stIn')].usage]_vars

\* C38, what the loop does with such a chunk: message_start when it is the
\* first chunk, and nothing more; no block event is emitted for it.
C38_NoBlockEvent ==
    [][(Len(stIn') > Len(stIn) /\ IsEmptyChoicesChunk(stIn'[Len(stIn')])) =>
          stOut' = (IF sent_start THEN stOut ELSE <<MessageStart>>)]_vars

\* C10: a finished stream is one message_start, then only content_block
\* events, then one message_delta, then one message_stop.
C10_Envelope ==
    stPc = "done" =>
        /\ Len(stOut) >= 3
        /\ stOut[1].type = "message_start"
        /\ stOut[Len(stOut) - 1].type = "message_delta"
        /\ stOut[Len(stOut)].type = "message_stop"
        /\ \A i \in 2 .. Len(stOut) - 2 : IsStart(i) \/ IsDelta(i) \/ IsStop(i)

\* the stops of a finished stream, as the indices they carry, in emission order
StopIndexes == [m \in 1 .. Cardinality({i \in StPos : IsStop(i)}) |->
                  stOut[CHOOSE i \in StPos :
                          IsStop(i) /\ Cardinality({n \in 1 .. i : IsStop(n)}) = m].index]

IsTextIndex(index) ==
    \E i \in StPos : IsStart(i) /\ stOut[i].kind = "text" /\ stOut[i].index = index

\* C11: no content_block_stop is emitted while the upstream is still being
\* read; in a finished stream the stops are the events just before
\* message_delta, the stop of the text block first, then the stops of the
\* tool blocks in ascending block_index order.
C11_ClosingOrder ==
    /\ stPc = "loop" => \A i \in StPos : ~IsStop(i)
    /\ stPc = "done" =>
          /\ \A i \in StPos : IsStop(i) =>
                \A m \in i + 1 .. Len(stOut) - 2 : IsStop(m)
          /\ \A m \in 2 .. Len(StopIndexes) :
                /\ ~IsTextIndex(StopIndexes[m])
                /\ ~IsTextIndex(StopIndexes[m - 1]) =>
                      StopIndexes[m - 1] < StopIndexes[m]

\* C29: the translation never ends in an exception, and once the upstream
\* ended or "data: [DONE]" was read the stream closes every block that was
\* opened and ends with message_delta, message_stop.
C29_Termination ==
    /\ stPc # "raised"
    /\ stPc = "done" =>
          /\ Len(stOut) >= 2
          /\ stOut[Len(stOut) - 1].type = "message_delta"
          /\ stOut[Len(stOut)].type = "message_stop"
          /\ \A i \in StPos : IsStart(i) =>
                \E m \in i + 1 .. Len(stOut) - 2 :
                    IsStop(m) /\ stOut[m].index = stOut[i].index

\* C29, the part about "data: [DONE]" and the end of the input: the stream
\* then ends with message_delta, message_stop, and nothing is read or
\* emitted afterwards.
C29_StopsAtDone ==
    [][/\ (stPc = "loop" /\ stPc' = "done") =>
             /\ Len(stOut') >= Len(stOut) + 2
             /\ stOut'[Len(stOut') - 1].type = "message_delta"
             /\ stOut'[Len(stOut')].type = "message_stop"
       /\ stPc = "done" => (stIn' = stIn /\ stOut' = stOut)]_vars

\* the finish_reason values the chunks carry, in upstream order
RECURSIVE FinishReasons(_, _)
FinishReasons(lines, first_only) ==
    IF lines = << >> THEN << >>
    ELSE LET choices == IF first_only /\ Len(Head(lines).choices) > 1
                        THEN <<Head(lines).choices[1]>> ELSE Head(lines).choices
             carried == SelectSeq([i \in 1 .. Len(choices) |-> choices[i].finish_reason],
                                  LAMBDA f : f # "")
         IN carried \o FinishReasons(Tail(lines), first_only)

\* the stop_reason of the last of the finish reasons, end_turn without any
StopReasonOf(reasons) ==
    IF reasons = << >> THEN "end_turn"
    ELSE IF reasons[Len(reasons)] = "tool_calls" THEN "tool_use"
    ELSE IF reasons[Len(reasons)] = "length" THEN "max_tokens"
    ELSE "end_turn"

\* C30: the stop_reason of message_delta is the mapping of the last
\* finish_reason that any upstream chunk carried, end_turn when none did.
C30_StopReason ==
    stPc = "done" =>
        stOut[Len(stOut) - 1].stop_reason = StopReasonOf(FinishReasons(stIn, FALSE))

\* C30 for the finish reasons carried in choices[0]
C30_StopReasonFirstChoice ==
    stPc = "done" =>
        stOut[Len(stOut) - 1].stop_reason = StopReasonOf(FinishReasons(stIn, TRUE))

(***************************************************************************)
(* Request translator: properties                                          *)
(***************************************************************************)

ToolUsesOf(msg) == SelectSeq(msg.blocks, IsToolUse)
ToolResultsOf(msg) == SelectSeq(msg.blocks, IsToolResult)
IsToolMessage(m) == m.role = "tool"

\* an assistant turn with tool_use blocks
IsToolUseTurn(k) ==
    rqIn[k].role = "assistant" /\ rqIn[k].is_list /\ ToolUsesOf(rqIn[k]) # << >>

RECURSIVE TextsJoined(_)
TextsJoined(blocks) ==
    IF blocks = << >> THEN NoStr
    ELSE IF blocks[1].type # "text" THEN TextsJoined(Tail(blocks))
    ELSE LET rest == TextsJoined(Tail(blocks))
         IN IF \A i \in 2 .. Len(blocks) : blocks[i].type # "text"
            THEN blocks[1].text
            ELSE blocks[1].text \o <<"\n">> \o rest

IsTextOrImageBlock(b) == b.type \in {"text", "image"}

\* a user turn with tool_result blocks
IsToolResultTurn(k) ==
    rqIn[k].role = "user" /\ rqIn[k].is_list /\ ToolResultsOf(rqIn[k]) # << >>

CountBlocks(blocks, type) ==
    Cardinality({i \in 1 .. Len(blocks) : blocks[i].type = type})

\* the image_url parts of the messages produced for a turn
ImagePartsOut(out) ==
    {<<m, i>> \in (1 .. Len(out)) \X (1 .. 4) :
        /\ out[m].content.kind = "parts"
        /\ i <= Len(out[m].content.parts)
        /\ out[m].content.parts[i].type = "image_url"}

\* the tool_calls entries of the messages produced for a turn
ToolCallsOut(out) ==
    {<<m, i>> \in (1 .. Len(out)) \X (1 .. 4) : i <= Len(out[m].tool_calls)}

\* every block of turn k is represented in the messages produced for it
AllBlocksRepresented(k) ==
    LET blocks == rqIn[k].blocks
        out == rqOut[k]
    IN /\ Cardinality(ImagePartsOut(out)) = CountBlocks(blocks, "image")
       /\ Cardinality(ToolCallsOut(out)) = CountBlocks(blocks, "tool_use")
       /\ Cardinality({m \in 1 .. Len(out) : out[m].role = "tool"})
             = CountBlocks(blocks, "tool_result")
       /\ CountBlocks(blocks, "text") > 0 =>
             \E m \in 1 .. Len(out) :
                /\ out[m].role # "tool"
                /\ out[m].content.kind \in {"str", "parts"}

\* C39: for every input turn with list content, each text, image, tool_use
\* and tool_result block of the turn is represented in the messages
\* produced: as message text, an image_url part, a tool_calls entry or a
\* role "tool" message, whatever the role and the other blocks of the turn.
C39_NoBlockDropped ==
    \A k \in 1 .. Len(rqIn) : rqIn[k].is_list => AllBlocksRepresented(k)

\* C39 for the turns the three branches were written for: an assistant turn
\* whose tool_use blocks come with text only, and any other turn without
\* tool_use blocks
C39_NoBlockDroppedPlainTurns ==
    \A k \in 1 .. Len(rqIn) :
        (/\ rqIn[k].is_list
         /\ IF rqIn[k].role = "assistant" /\ CountBlocks(rqIn[k].blocks, "tool_use") > 0
            THEN CountBlocks(rqIn[k].blocks, "image") = 0
                 /\ CountBlocks(rqIn[k].blocks, "tool_result") = 0
            ELSE CountBlocks(rqIn[k].blocks, "tool_use") = 0)
        => AllBlocksRepresented(k)

(***************************************************************************)
(* Response translator: properties                                         *)
(***************************************************************************)

\* C9: the content returned holds the text of every choice, in order, and
\* then the tool calls of every choice, in order: the messages of all the
\* elements of choices are merged.
C9_SplitChoiceMerge ==
    rpPc = "returned" =>
        rpOut.content = (IF TextBlocksOf(rpIn.choices) \o ToolBlocksOf(rpIn.choices) = << >>
                         THEN <<ResponseTextBlock(NoStr)>>
                         ELSE TextBlocksOf(rpIn.choices) \o ToolBlocksOf(rpIn.choices))

IsTextContent(b) == b.type = "text"
IsToolUseContent(b) == b.type = "tool_use"

\* the tool calls of the messages of choices, in order
RECURSIVE CallsOf(_)
CallsOf(choices) ==
    IF choices = << >> THEN << >>
    ELSE Head(choices).tool_calls \o CallsOf(Tail(choices))

\* content is built as C24 says from the tool calls given and from whether
\* the upstream sent any text
BuiltFrom(content, calls, any_text) ==
    LET texts == SelectSeq(content, IsTextContent)
        tools == SelectSeq(content, IsToolUseContent)
    IN /\ content # << >>
       /\ content = texts \o tools
       /\ Len(tools) = Len(calls)
       /\ \A i \in 1 .. Len(calls) :
             /\ tools[i].id = calls[i].id
             /\ tools[i].name = calls[i].name
             /\ tools[i].input = (IF calls[i].arguments.valid
                                  THEN calls[i].arguments.value ELSE << >>)
       /\ IF calls = << >> /\ ~any_text
          THEN content = <<ResponseTextBlock(NoStr)>>
          ELSE /\ \A i \in 1 .. Len(texts) : texts[i].text # NoStr
               /\ any_text => texts # << >>

\* C24: the content returned is never empty: the text blocks, for non-empty
\* text only, then one tool_use block per tool call of the upstream body, in
\* upstream order, with the call's id, name and decoded arguments; one empty
\* text block when the body has neither text nor a tool call.
C24_ContentConstruction ==
    rpPc = "returned" =>
        BuiltFrom(rpOut.content, CallsOf(rpIn.choices),
                  \E i \in 1 .. Len(rpIn.choices) : rpIn.choices[i].content # NoStr)

\* C24 with the first element of choices as the whole body
C24_FirstChoiceContent ==
    rpPc = "returned" =>
        BuiltFrom(rpOut.content, BodyChoices(rpIn)[1].tool_calls,
                  BodyChoices(rpIn)[1].content # NoStr)

\* the body lacks one of the keys the translation reads with a default
LacksKey(openai_resp) ==
    \/ openai_resp.no_choices
    \/ openai_resp.usage = NoUsage
    \/ /\ BodyChoices(openai_resp) # << >>
       /\ \/ BodyChoices(openai_resp)[1].content = NoStr
          \/ BodyChoices(openai_resp)[1].tool_calls = << >>
          \/ BodyChoices(openai_resp)[1].finish_reason = ""

C32_UndecodableArguments ==
    rpPc = "returned" =>
        LET calls == BodyChoices(rpIn)[1].tool_calls
            tools == SelectSeq(rpOut.content, IsToolUseContent)
        IN /\ Len(tools) = Len(calls)
           /\ \A i \in 1 .. Len(calls) :
                 /\ tools[i].id = calls[i].id
                 /\ tools[i].name = calls[i].name
                 /\ ~calls[i].arguments.valid => tools[i].input = EmptyObject
                 /\ calls[i].arguments.valid => tools[i].input = calls[i].arguments.value

(***************************************************************************)
(* API-key gate: properties                                                *)
(***************************************************************************)

\* the keys a request presents: the credential of a Bearer Authorization
\* header, the x-api-key header, the api-key header
KeysPresented(r) ==
    ({r.x_api_key, r.api_key}
       \cup (IF r.authorization.scheme \in {"Bearer ", "bearer "}
             THEN {r.authorization.rest} ELSE {}))
    \ {""}

\* C21: with a key configured, a request reaches the route handler only if
\* its path is / or /health, or it comes from 127.0.0.1, ::1 or localhost,
\* or it presents the configured key; any other request is answered 401.
C21_ApiKeyGate ==
    (gtKey # "" /\ gtPc \in {"handler", "refused"}) =>
        LET entitled ==
              \/ gtReq.path \in {"/", "/health"}
              \/ gtReq.client_host \in {"127.0.0.1", "::1", "localhost"}
              \/ gtKey \in KeysPresented(gtReq)
        IN /\ gtPc = "handler" => entitled
           /\ ~entitled => (gtPc = "refused" /\ gtStatus = 401)

\* a remote request without the key was answered 401
C21_Witness ==
    /\ gtKey # ""
    /\ gtPc = "refused"
    /\ gtStatus = 401
    /\ gtReq.path = "/v1/messages"
    /\ gtReq.client_host = "203.0.113.7"
    /\ gtReq.authorization.scheme = "Bearer "
    /\ gtReq.authorization.rest = "k2"

\* the request carries the key in one of the three headers
CarriesKey(key, r) ==
    \/ r.authorization = AuthorizationHeader("Bearer ", key)
    \/ r.x_api_key = key
    \/ r.api_key = key

\* C36: with a key configured, a request from a non-loopback address to a
\* non-public path that carries the key in Authorization: Bearer, in
\* x-api-key or in api-key is admitted to the route handler, whatever the
\* other two headers contain.
C36_KeyInAnyHeader ==
    (gtKey # "" /\ gtPc \in {"handler", "refused"}
       /\ gtReq.client_host \notin {"127.0.0.1", "::1", "localhost"}
       /\ gtReq.path \notin {"/", "/health"}
       /\ CarriesKey(gtKey, gtReq)) =>
        gtPc = "handler"

\* C36 when every header that comes before the one with the key is absent,
\* or is an Authorization header that is not a Bearer one
C36_KeyInFirstHeaderPresent ==
    (gtKey # "" /\ gtPc \in {"handler", "refused"}
       /\ PresentedToken(gtReq) = gtKey) =>
        gtPc = "handler"

(***************************************************************************)
(* Request translator, tools and tool_choice: properties                   *)
(***************************************************************************)

\* the table of the conversion: auto -> "auto", any -> "required",
\* none -> "none", a named tool -> that function, anything else -> "auto"
ToolChoiceTable(tc) ==
    LET word == IF tc.kind = "str" THEN tc.str
                ELSE IF tc.kind = "dict" THEN tc.type ELSE ""
    IN IF word = "any" THEN StrChoice("required")
       ELSE IF word = "none" THEN StrChoice("none")
       ELSE IF tc.kind = "dict" /\ word = "tool" /\ tc.name # Missing
       THEN FunctionChoice(tc.name)
       ELSE StrChoice("auto")

\* C22: a tool_choice of the request is converted by the table, "auto" for
\* every value the table does not list.
C22_ToolChoiceConversion ==
    (pmPc \in {"returned", "tool_choice_raised"}
       /\ pmBody.tool_choice.kind # "absent") =>
        /\ pmPc = "returned"
        /\ pmOut.tool_choice = ToolChoiceTable(pmBody.tool_choice)

\* the forms the table lists
ListedToolChoice(tc) ==
    \/ tc.kind = "str" /\ tc.str \in {"auto", "any", "none"}
    \/ tc.kind = "dict" /\ tc.type \in {"auto", "any", "none"}
    \/ tc.kind = "dict" /\ tc.type = "tool" /\ tc.name # Missing

\* C22 for the listed forms of tool_choice
C22_ListedToolChoices ==
    (pmPc \in {"returned", "tool_choice_raised"}
       /\ ListedToolChoice(pmBody.tool_choice)) =>
        /\ pmPc = "returned"
        /\ pmOut.tool_choice = ToolChoiceTable(pmBody.tool_choice)

\* C33: a model name absent from the mapping table is resolved by the fuzzy
\* rule: sonnet with 4-5/4.5 -> claude-sonnet-4.5, other sonnet ->
\* claude-sonnet-4; opus with 4-6/4.6 -> claude-opus-4.6, opus with 4-5/4.5
\* -> claude-opus-4.5, other opus -> claude-opus-41; haiku ->
\* claude-haiku-4.5; a name with none of the three is returned unchanged.
C33_FuzzyResolution ==
    (pmPc # "model" /\ pmBody.model # NoModel /\ ~InTable(pmBody.model)) =>
        pmOut.model = FuzzyMatch(pmBody.model)

\* C33 for the names without a "."
C33_FuzzyResolutionUndotted ==
    (pmPc # "model" /\ pmBody.model # NoModel /\ ~InTable(pmBody.model)
       /\ ~Contains(pmBody.model, <<".">>)) =>
        pmOut.model = FuzzyMatch(pmBody.model)

\* C40: the name the mapping returned is mapped to itself.
C40_Idempotent ==
    pmPc # "model" =>
        map_anthropic_model_to_copilot(pmOut.model) = pmOut.model

C40_Witness ==
    /\ pmPc = "tools"
    /\ pmBody.model = claude \o <<"-">> \o opus \o <<"-", "5">>
    /\ pmOut.model = CLAUDE_OPUS_41
    /\ ~InTable(pmOut.model)

(***************************************************************************)
(* Credential file: properties                                             *)
(***************************************************************************)

\* C25: auth.json, whenever it exists, holds one whole record, and a load
\* of another process that finds the file gets a record.
C25_AtomicSave ==
    /\ fsFile # None => fsFile.state = "complete"
    /\ (fsRead # NoRead /\ fsRead.existed) => fsRead.result # None

\* C26: whenever auth.json exists its mode is 0600.
C26_OwnerOnly ==
    fsFile # None => fsFile.mode = {"ur", "uw"}

\* C27: a refresh whose save failed still returns the minted bearer, and
\* the record in memory holds that bearer.
C27_SaveFailureNotFatal ==
    (fsOp = "refresh" /\ fsPc \in {"returned", "raised"}) =>
        /\ fsCreds.copilot_token = Bearer(fsCreds.github_token, fsSaves)
        /\ fsRet = fsCreds.copilot_token

\* C27, the part about the record in memory: after a refresh, whether its
\* save failed or not, the record holds the minted bearer, and a later call
\* returns the bearer of the record.
C27_RecordKeepsBearer ==
    /\ (fsOp = "refresh" /\ fsPc \in {"returned", "raised"}) =>
           fsCreds.copilot_token = Bearer(fsCreds.github_token, fsSaves)
    /\ (fsOp = "cached" /\ fsPc = "returned") => fsRet = fsCreds.copilot_token

(***************************************************************************)
(* Device flow: properties                                                 *)
(***************************************************************************)

\* C34: poll_for_access_token terminates for every initial interval >= 0:
\* every poll adds to the accumulated wait, so that under replies that are
\* always authorization_pending or slow_down the 900 s deadline is reached
\* after finitely many polls.
C34_PollProgress ==
    [][dfPolls' # dfPolls => elapsed' > elapsed]_vars

\* C34 for the polls made with a positive interval
C34_PollProgressPositive ==
    [][(dfPolls' # dfPolls /\ poll_interval > 0) => elapsed' > elapsed]_vars

\* C34, how the function ends: with the access token, or with OAuthError
\* for expired_token, access_denied, an unexpected error, or the timeout
\* once the accumulated wait has reached the deadline.
C34_Outcomes ==
    /\ dfPc = "returned" => dfResult = "access_token"
    /\ dfPc = "raised" => dfResult \in OAuthErrors
    /\ dfResult = "timed_out" => elapsed >= DEVICE_CODE_TIMEOUT

\* C34_Outcomes for the replies that raise_for_status lets through
C34_OutcomesOfBodies ==
    /\ dfPc = "returned" => dfResult = "access_token"
    /\ dfPc = "raised" => dfResult \in OAuthErrors \cup {"HTTPStatusError"}
    /\ dfResult = "timed_out" => elapsed >= DEVICE_CODE_TIMEOUT

(***************************************************************************)
(* X-Initiator: properties                                                 *)
(***************************************************************************)

\* the last item of the input is an assistant message, a function call, a
\* function call output or a reasoning item
LastItemOfAgent(input) ==
    /\ input.is_list
    /\ input.items # << >>
    /\ LET last == input.items[Len(input.items)]
       IN /\ last.is_dict
          /\ \/ LowerWord(GetOrEmpty(last.role)) = "assistant"
             \/ LowerWord(GetOrEmpty(last.type))
                   \in {"function_call", "function_call_output", "reasoning"}

\* C35: the X-Initiator header sent upstream for a /v1/responses request is
\* "agent" exactly when the last input item has role assistant or a type
\* among function_call, function_call_output, reasoning, and "user" in
\* every other case; no item but the last is looked at.
C35_Initiator ==
    inPc = "sent" =>
        inHeaders.x_initiator = (IF LastItemOfAgent(inBody) THEN "agent" ELSE "user")

\* an assistant message followed by a user message: "user"
C35_Witness ==
    /\ inPc = "sent"
    /\ inBody.is_list
    /\ Len(inBody.items) = 2
    /\ inBody.items[1] = Item(TRUE, "assistant", "message")
    /\ inBody.items[2] = Item(TRUE, "user", "message")
    /\ inHeaders.x_initiator = "user"

====
